---- MODULE Spec2Model ----
(***************************************************************************)
(* Dubey's Banking Management System, src/UI/app.py: the EMI calculator    *)
(* endpoint /api/calculate_emi (calculate_emi_api) and the process-wide    *)
(* configuration it lives beside.                                          *)
(*                                                                         *)
(* The handler works on Python floats (IEEE 754 binary64) and Python ints  *)
(* (unbounded).  TLC's integers are 32 bits wide, so both are modelled on  *)
(* arbitrary-precision naturals: little-endian sequences of 15-bit limbs,  *)
(* no leading zero limb, zero being <<>>.                                  *)
(***************************************************************************)
EXTENDS Integers, Sequences, FiniteSets, TLC

----------------------------------------------------------------------------
(* Arbitrary-precision naturals.                                           *)

Base == 2^15

Limb(a, i) == IF i >= 1 /\ i <= Len(a) THEN a[i] ELSE 0

\* a without its leading zero limbs
BNorm(a) ==
    IF a = <<>> THEN a
    ELSE IF \A i \in 1..Len(a) : a[i] = 0 THEN <<>>
    ELSE SubSeq(a, 1, CHOOSE i \in 1..Len(a) :
                          a[i] # 0 /\ \A j \in (i + 1)..Len(a) : a[j] = 0)

\* the natural n < 2^31
BFromInt(n) == BNorm(<<n % Base, (n \div Base) % Base, n \div (Base * Base)>>)

\* the number whose limb i is s[i], for 0 <= s[i] <= 2 * Base - 2: limb i takes
\* a carry when a lower limb overflows and every limb between them is full
BCarry(s) ==
    BNorm([i \in 1..(Len(s) + 1) |->
             (Limb(s, i)
                + IF \E j \in 1..(i - 1) :
                         /\ s[j] >= Base
                         /\ \A k \in (j + 1)..(i - 1) : s[k] = Base - 1
                  THEN 1 ELSE 0) % Base])

\* a + b, for any two sequences of limbs
BAdd(a, b) ==
    IF a = <<>> THEN BNorm(b)
    ELSE IF b = <<>> THEN BNorm(a)
    ELSE BCarry([i \in 1..(IF Len(a) > Len(b) THEN Len(a) ELSE Len(b)) |->
                   Limb(a, i) + Limb(b, i)])

\* the number whose limb i is d[i], for -Base < d[i] < Base and a total that
\* is not negative: limb i gives a borrow when a lower limb is negative and
\* every limb between them is zero
BBorrow(d) ==
    BNorm([i \in 1..Len(d) |->
             (d[i] + Base
                - IF \E j \in 1..(i - 1) :
                         /\ d[j] < 0
                         /\ \A k \in (j + 1)..(i - 1) : d[k] = 0
                  THEN 1 ELSE 0) % Base])

\* a - b for a >= b
BSub(a, b) ==
    IF a = <<>> \/ b = <<>> THEN a
    ELSE BBorrow([i \in 1..Len(a) |-> a[i] - Limb(b, i)])

\* -1, 0 or 1 as a < b, a = b, a > b
BCmp(a, b) ==
    IF Len(a) # Len(b) THEN (IF Len(a) < Len(b) THEN -1 ELSE 1)
    ELSE IF a = b THEN 0
    ELSE IF \E i \in 1..Len(a) :
                a[i] < b[i] /\ \A j \in (i + 1)..Len(a) : a[j] = b[j]
    THEN -1 ELSE 1

\* the number whose limb i is c[i], for 0 <= c[i] < Base * Base
BFromColumns(c) ==
    IF c = <<>> THEN c
    ELSE
    BAdd([i \in 1..Len(c) |-> c[i] % Base],
         [i \in 1..(Len(c) + 1) |-> IF i = 1 THEN 0 ELSE c[i - 1] \div Base])

\* a * k + c for 0 <= k <= Base and 0 <= c < Base
BMulAdd(a, k, c) ==
    IF k = 0 \/ a = <<>> THEN BFromInt(c)
    ELSE BFromColumns([i \in 1..Len(a) |-> a[i] * k + IF i = 1 THEN c ELSE 0])

BMulSmall(a, k) == BMulAdd(a, k, 0)

BShlLimbs(a, n) == IF a = <<>> \/ n = 0 THEN a ELSE [i \in 1..n |-> 0] \o a

RECURSIVE Sum(_, _, _)
\* f[lo] + ... + f[hi]
Sum(f, lo, hi) ==
    IF lo > hi THEN 0
    ELSE IF lo = hi THEN f[lo]
    ELSE Sum(f, lo, (lo + hi) \div 2) + Sum(f, ((lo + hi) \div 2) + 1, hi)

\* a[i] * b[j], 0 when b has no limb j
BProd(a, b, i, j) == IF j >= 1 /\ j <= Len(b) THEN a[i] * b[j] ELSE 0

\* a * b: column k sums the low halves of the products a[i] * b[j] with
\* i + j = k + 1 and the high halves of those with i + j = k
BMul(a, b) ==
    IF a = <<>> \/ b = <<>> THEN <<>>
    ELSE BFromColumns(
             [k \in 1..(Len(a) + Len(b)) |->
                Sum([i \in 1..Len(a) |->
                       (BProd(a, b, i, k + 1 - i) % Base)
                           + (BProd(a, b, i, k - i) \div Base)],
                    1, Len(a))])

\* a * 2^n
BShl(a, n) ==
    IF a = <<>> \/ n = 0 THEN a
    ELSE BShlLimbs(BMulSmall(a, 2^(n % 15)), n \div 15)

\* floor(a / 2^n)
BShr(a, n) ==
    IF Len(a) <= n \div 15 THEN <<>>
    ELSE BNorm([i \in 1..(Len(a) - (n \div 15)) |->
                  (a[i + (n \div 15)] \div 2^(n % 15))
                      + (Limb(a, i + (n \div 15) + 1) % 2^(n % 15))
                            * 2^(15 - (n % 15))])

\* bit i of a, bit 0 the least significant
BBit(a, i) == (Limb(a, (i \div 15) + 1) \div 2^(i % 15)) % 2

\* whether a has a 1 among its bits 0..n-1
BAnyBelow(a, n) ==
    \/ \E i \in 1..(n \div 15) : Limb(a, i) # 0
    \/ Limb(a, (n \div 15) + 1) % 2^(n % 15) # 0

\* the number of bits of x, for 0 <= x < Base
BitLenSmall(x) == CHOOSE k \in 0..15 : x < 2^k /\ (k = 0 \/ x >= 2^(k - 1))

BBitLen(a) == IF a = <<>> THEN 0 ELSE 15 * (Len(a) - 1) + BitLenSmall(a[Len(a)])

\* the number of trailing zero bits of a # 0
BTrailingZeros(a) ==
    CHOOSE n \in 0..(15 * Len(a)) : BBit(a, n) = 1 /\ ~BAnyBelow(a, n)

\* One digit of a long division (Knuth's algorithm D): the largest d with
\* d * b <= r, for r < b * Base and b's top limb at least Base / 2.  The estimate
\* qhat from the top two limbs of r is at most 2 too large.
BDivTry(r, b, qhat) ==
    IF BCmp(BMulSmall(b, qhat), r) <= 0 THEN qhat
    ELSE IF BCmp(BMulSmall(b, qhat - 1), r) <= 0 THEN qhat - 1
    ELSE qhat - 2

BDivEstimate(r, b, est) == BDivTry(r, b, IF est > Base - 1 THEN Base - 1 ELSE est)

BDivDigit(r, b) ==
    BDivEstimate(r, b, (Limb(r, Len(b) + 1) * Base + Limb(r, Len(b))) \div b[Len(b)])

\* the digit d of the quotient leaves r - d * b
BDivLeave(r, b, d) ==
    [q |-> <<d>>, r |-> IF d = 0 THEN r ELSE BSub(r, BMulSmall(b, d))]

BDivStep(r, b) ==
    IF BCmp(r, b) < 0 THEN BDivLeave(r, b, 0) ELSE BDivLeave(r, b, BDivDigit(r, b))

RECURSIVE BDivRange(_, _, _, _, _)
\* long division over limbs hi down to lo of a, by halves; r < b is the running
\* remainder; q holds the quotient's limbs hi down to lo, the top one first
BDivRange(a, b, lo, hi, r) ==
    IF lo > hi THEN [q |-> <<>>, r |-> r]
    ELSE IF lo = hi THEN BDivStep(BNorm(<<a[lo]>> \o r), b)
    ELSE LET top == BDivRange(a, b, ((lo + hi) \div 2) + 1, hi, r)
             bot == BDivRange(a, b, lo, (lo + hi) \div 2, top.r)
         IN  [q |-> top.q \o bot.q, r |-> bot.r]

\* the quotient's limbs turned the low one first, the remainder scaled back
BDivResult(s, qr) ==
    [q |-> BNorm([i \in 1..Len(qr.q) |-> qr.q[Len(qr.q) + 1 - i]]),
     r |-> BShr(qr.r, s)]

BDivScaled(a, s, an, bn) ==
    IF Len(an) < Len(bn) THEN [q |-> <<>>, r |-> a]
    ELSE BDivResult(s, BDivRange(an, bn, 1, Len(an) + 1 - Len(bn),
                                 SubSeq(an, Len(an) + 2 - Len(bn), Len(an))))

BDivNormalise(a, b, s) == BDivScaled(a, s, BMulSmall(a, 2^s), BMulSmall(b, 2^s))

\* quotient and remainder of a by b # 0: a and b are scaled to bring b's top
\* limb to Base / 2 or more, and the division starts with a's top Len(b) - 1
\* limbs as the remainder
BDivMod(a, b) ==
    IF a = <<>> THEN [q |-> <<>>, r |-> <<>>]
    ELSE BDivNormalise(a, b, 15 - BitLenSmall(b[Len(b)]))

RECURSIVE BPowSmall(_, _)
\* k^n for 0 < k < Base, by squaring
BPowSmall(k, n) ==
    IF n = 0 THEN <<1>>
    ELSE LET h == BPowSmall(k, n \div 2)
         IN  IF n % 2 = 1 THEN BMulSmall(BMul(h, h), k) ELSE BMul(h, h)

\* the value of a as a TLC integer, for a below 2^30
BToInt(a) == Limb(a, 1) + Base * Limb(a, 2)

----------------------------------------------------------------------------
(* Python floats: IEEE 754 binary64, round to nearest, ties to even.  A    *)
(* float is [cls, neg, man, exp]: cls "fin" stands for (-1)^neg * man *    *)
(* 2^exp with man = 0 (and exp = 0), or 2^52 <= man < 2^53 and             *)
(* MinExp <= exp <= MaxExp, or man < 2^52 and exp = MinExp (a subnormal);  *)
(* cls "inf" and "nan" are the infinities and the NaN.  A raised exception *)
(* is carried in the same record, cls being the exception's class.         *)

MantDig == 53
MinExp == -1074
MaxExp == 971

FNan == [cls |-> "nan", neg |-> FALSE, man |-> <<>>, exp |-> 0]
FInf(neg) == [cls |-> "inf", neg |-> neg, man |-> <<>>, exp |-> 0]
FZero(neg) == [cls |-> "fin", neg |-> neg, man |-> <<>>, exp |-> 0]
Raise(exc) == [cls |-> exc, neg |-> FALSE, man |-> <<>>, exp |-> 0]

IsFloat(x) == x.cls \in {"fin", "inf", "nan"}
IsRaise(x) == ~IsFloat(x)
IsZero(x) == x.cls = "fin" /\ x.man = <<>>
FNeg(x) == IF x.cls = "nan" THEN x ELSE [x EXCEPT !.neg = ~x.neg]

\* the float (-1)^neg * m * 2^e, m of at most MantDig bits; a magnitude of
\* 2^1024 or more gives an infinity
RoundPack(neg, m, e) ==
    IF m = <<>> THEN FZero(neg)
    ELSE IF e > MaxExp THEN FInf(neg)
    ELSE [cls |-> "fin", neg |-> neg, man |-> m, exp |-> e]

\* q is the mantissa rounded to the exponent e: the carry of the rounding may
\* have made it one bit longer
RoundCarry(neg, q, e) ==
    IF BBitLen(q) > MantDig THEN RoundPack(neg, BShr(q, 1), e + 1)
    ELSE RoundPack(neg, q, e)

\* q is m without its sh low bits, sh >= 1: to nearest, ties to even
RoundDropped(neg, m, e, sticky, sh, q) ==
    IF /\ BBit(m, sh - 1) = 1
       /\ (sticky \/ BAnyBelow(m, sh - 1) \/ BBit(q, 0) = 1)
    THEN RoundCarry(neg, BAdd(q, <<1>>), e + sh)
    ELSE RoundCarry(neg, q, e + sh)

\* sh is the number of low bits of m to drop
RoundShift(neg, m, e, sticky, sh) ==
    IF sh <= 0 THEN RoundPack(neg, BShl(m, 0 - sh), e + sh)
    ELSE RoundDropped(neg, m, e, sticky, sh, BShr(m, sh))

\* The float nearest to (-1)^neg * (m + t) * 2^e, where 0 < t < 1 if sticky and
\* t = 0 if not; with sticky, m has at least MantDig + 2 bits.
RoundD(neg, m, e, sticky) ==
    IF m = <<>> THEN FZero(neg)
    ELSE RoundShift(neg, m, e, sticky,
                    IF e + BBitLen(m) - MantDig < MinExp THEN MinExp - e
                    ELSE BBitLen(m) - MantDig)

\* qr is the quotient and remainder of n * 2^k by d
RatQuotient(neg, e, k, qr) == RoundD(neg, qr.q, e - k, qr.r # <<>>)

RatScaled(neg, n, d, e, k) == RatQuotient(neg, e, k, BDivMod(BShl(n, k), d))

\* gap is how many bits d is longer than n
RatApart(neg, n, d, e, gap) ==
    IF gap - e > 3 - MinExp THEN FZero(neg)
    ELSE RatScaled(neg, n, d, e,
                   IF gap + MantDig + 3 > 0 THEN gap + MantDig + 3 ELSE 0)

\* The float nearest to (-1)^neg * (n / d) * 2^e, for d # 0
FromRatExp(neg, n, d, e) ==
    IF n = <<>> THEN FZero(neg) ELSE RatApart(neg, n, d, e, BBitLen(d) - BBitLen(n))

\* The float nearest to (-1)^neg * n / d, for d # 0
FromRat(neg, n, d) == FromRatExp(neg, n, d, 0)

\* -1, 0, 1 as |x| < |y|, |x| = |y|, |x| > |y|, for finite x and y
FCmpAbs(x, y) ==
    IF x.man = <<>> \/ y.man = <<>>
    THEN (IF x.man = y.man THEN 0 ELSE IF x.man = <<>> THEN -1 ELSE 1)
    ELSE IF x.exp # y.exp THEN (IF x.exp < y.exp THEN -1 ELSE 1)
    ELSE BCmp(x.man, y.man)

\* x < y on floats (false when either is a NaN)
FLt(x, y) ==
    IF x.cls = "nan" \/ y.cls = "nan" THEN FALSE
    ELSE IF x.cls = "inf" THEN x.neg /\ ~(y.cls = "inf" /\ y.neg)
    ELSE IF y.cls = "inf" THEN ~y.neg
    ELSE IF IsZero(x) /\ IsZero(y) THEN FALSE
    ELSE IF x.neg # y.neg THEN x.neg
    ELSE IF x.neg THEN FCmpAbs(x, y) = 1
    ELSE FCmpAbs(x, y) = -1

FEq(x, y) ==
    /\ x.cls # "nan" /\ y.cls # "nan"
    /\ ~FLt(x, y) /\ ~FLt(y, x)

\* x <= y on floats
FLe(x, y) == FLt(x, y) \/ FEq(x, y)

\* big + sml for |big| >= |sml| > 0, bm being big's mantissa brought sft bits
\* down towards sml's exponent; far apart, sml only decides the rounding
FAddAligned(big, sml, far, sft, bm) ==
    IF big.neg # sml.neg /\ ~far /\ bm = sml.man THEN FZero(FALSE)
    ELSE RoundD(big.neg,
                IF big.neg = sml.neg
                THEN (IF far THEN bm ELSE BAdd(bm, sml.man))
                ELSE (IF far THEN BSub(bm, <<1>>) ELSE BSub(bm, sml.man)),
                big.exp - sft, far)

FAddShifted(big, sml, far, sft) ==
    FAddAligned(big, sml, far, sft, BShl(big.man, sft))

FAddOrdered(big, sml) ==
    FAddShifted(big, sml, big.exp - sml.exp > MantDig + 3,
                IF big.exp - sml.exp > MantDig + 3 THEN 3 ELSE big.exp - sml.exp)

\* float_add
FAdd(x, y) ==
    IF x.cls = "nan" \/ y.cls = "nan" THEN FNan
    ELSE IF x.cls = "inf" /\ y.cls = "inf"
         THEN (IF x.neg = y.neg THEN x ELSE FNan)
    ELSE IF x.cls = "inf" THEN x
    ELSE IF y.cls = "inf" THEN y
    ELSE IF IsZero(x) /\ IsZero(y) THEN FZero(x.neg /\ y.neg)
    ELSE IF IsZero(x) THEN y
    ELSE IF IsZero(y) THEN x
    ELSE FAddOrdered(IF FCmpAbs(x, y) >= 0 THEN x ELSE y,
                     IF FCmpAbs(x, y) >= 0 THEN y ELSE x)

\* float_sub
FSub(x, y) == FAdd(x, FNeg(y))

\* float_mul
FMul(x, y) ==
    IF x.cls = "nan" \/ y.cls = "nan" THEN FNan
    ELSE IF x.cls = "inf" \/ y.cls = "inf"
         THEN (IF IsZero(x) \/ IsZero(y) THEN FNan ELSE FInf(x.neg # y.neg))
    ELSE RoundD(x.neg # y.neg, BMul(x.man, y.man), x.exp + y.exp, FALSE)

\* float_div (float_div raises ZeroDivisionError for every dividend)
FDiv(x, y) ==
    IF IsZero(y) THEN Raise("ZeroDivisionError")
    ELSE IF x.cls = "nan" \/ y.cls = "nan" THEN FNan
    ELSE IF x.cls = "inf"
         THEN (IF y.cls = "inf" THEN FNan ELSE FInf(x.neg # y.neg))
    ELSE IF y.cls = "inf" THEN FZero(x.neg # y.neg)
    ELSE FromRatExp(x.neg # y.neg, x.man, y.man, x.exp - y.exp)

----------------------------------------------------------------------------
(* Python ints: [neg, mag], mag an arbitrary-precision natural.            *)

MkInt(neg, mag) == [cls |-> "int", neg |-> neg /\ mag # <<>>, mag |-> mag]
IntZero == MkInt(FALSE, <<>>)

\* n <= 0 on ints
IntLeZero(n) == n.neg \/ n.mag = <<>>

\* a result too large for a float raises OverflowError
OverflowIfInf(f) == IF f.cls = "inf" THEN Raise("OverflowError") ELSE f

\* PyLong_AsDouble: float(n) for an int n
FloatOfInt(n) == OverflowIfInf(RoundD(n.neg, n.mag, 0, FALSE))

----------------------------------------------------------------------------
(* float ** int.  float_pow converts the exponent to a float and calls C's *)
(* pow, which is modelled as correctly rounded; a partial power is kept as *)
(* [m, e, inx, rng]: the power is m * 2^e, or a little more if inx (m then *)
(* has w bits), and rng is "over" or "under" once the power is known to    *)
(* lie outside the range of the floats.                                    *)

TOne == [m |-> <<1>>, e |-> 0, inx |-> FALSE, rng |-> "ok"]

\* m of len bits cut to w bits
TSized(m, e, inx, w, len) ==
    IF e + len > 1100
    THEN [m |-> <<1>>, e |-> 1100, inx |-> TRUE, rng |-> "over"]
    ELSE IF e + len < -1200
    THEN [m |-> <<1>>, e |-> -1200, inx |-> TRUE, rng |-> "under"]
    ELSE IF len <= w THEN [m |-> m, e |-> e, inx |-> inx, rng |-> "ok"]
    ELSE [m |-> BShr(m, len - w), e |-> e + len - w,
          inx |-> inx \/ BAnyBelow(m, len - w), rng |-> "ok"]

TNorm(m, e, inx, w) == TSized(m, e, inx, w, BBitLen(m))

TMul(p, q, w) ==
    IF p.rng # "ok" THEN p
    ELSE IF q.rng # "ok" THEN q
    ELSE TNorm(BMul(p.m, q.m), p.e + q.e, p.inx \/ q.inx, w)

RECURSIVE TPowSmall(_, _, _)
\* x^d for 0 <= d <= Base, by squaring
TPowSmall(x, d, w) ==
    IF d = 0 THEN TOne
    ELSE LET h == TPowSmall(x, d \div 2, w)
         IN  IF h.rng # "ok" THEN h
             ELSE IF d % 2 = 1 THEN TMul(TMul(h, h, w), x, w)
             ELSE TMul(h, h, w)

RECURSIVE TPowLimbs(_, _, _, _)
\* x^(the number made of the limbs i.. of n), for i <= Len(n)
TPowLimbs(x, n, i, w) ==
    IF i = Len(n) THEN TPowSmall(x, n[i], w)
    ELSE LET hi == TPowLimbs(x, n, i + 1, w)
         IN  IF hi.rng # "ok" THEN hi
             ELSE TMul(TPowSmall(hi, Base, w), TPowSmall(x, n[i], w), w)

\* C leaves the accuracy of pow to the library: a power that is no float
\* comes back as the nearest float or as one of its two neighbours
PowErrs == {-1, 0, 1}

\* the float ulp steps from f, away from zero for ulp > 0
FStep(f, ulp) ==
    IF ulp = 0 \/ f.cls # "fin" \/ f.man = <<>> THEN f
    ELSE IF ulp > 0 THEN RoundCarry(f.neg, BAdd(f.man, <<1>>), f.exp)
    ELSE IF f.man = BShl(<<1>>, MantDig - 1) /\ f.exp > MinExp
    THEN RoundPack(f.neg, BSub(BShl(<<1>>, MantDig), <<1>>), f.exp - 1)
    ELSE RoundPack(f.neg, BSub(f.man, <<1>>), f.exp)

RECURSIVE PowRound(_, _, _, _, _)
\* the power lies between lo and hi, both rounded: when they differ, the
\* working precision is doubled; exact says that the power is the float lo
PowBetween(neg, x, n, w, exact, lo, hi, ulp) ==
    IF exact THEN lo
    ELSE IF lo = hi THEN FStep(lo, ulp)
    ELSE PowRound(neg, x, n, 2 * w, ulp)

PowRounded(neg, x, n, w, p, ulp) ==
    IF p.rng = "over" THEN FInf(neg)
    ELSE IF p.rng = "under" THEN FZero(neg)
    ELSE PowBetween(neg, x, n, w,
                    ~p.inx /\ BBitLen(p.m) <= MantDig /\ p.e >= MinExp,
                    RoundD(neg, p.m, p.e, p.inx),
                    IF p.inx
                    THEN RoundD(neg, BAdd(p.m, BShl(<<1>>, 66)), p.e, TRUE)
                    ELSE RoundD(neg, p.m, p.e, FALSE),
                    ulp)

\* pow(x, n) for x = [m, e, ..] exact and n >= 1: x^n rounded to the nearest
\* float and moved by ulp when it is not exact; the error left by the
\* truncations is below 2^66 units of m for n < 2^63
PowRound(neg, x, n, w, ulp) ==
    PowRounded(neg, x, n, w, TPowLimbs(x, n, 1, w), ulp)

\* x = m * 2^e with m odd, tz being the number of trailing zero bits of x.man
PowOdd(x, tz) ==
    [m |-> BShr(x.man, tz), e |-> x.exp + tz, inx |-> FALSE, rng |-> "ok"]

\* iw is the exponent as a float, neg the sign of the power
PowSigned(x, iw, neg, ulp) ==
    IF x.cls = "nan" THEN x
    ELSE IF x.cls = "inf" THEN FInf(neg)
    ELSE IF IsZero(x) THEN FZero(neg)
    ELSE IF x.exp = 1 - MantDig /\ x.man = BShl(<<1>>, MantDig - 1)
         THEN RoundD(neg, <<1>>, 0, FALSE)
    ELSE IF BBitLen(iw.man) + iw.exp > 63
         THEN (IF x.exp > 0 - MantDig THEN Raise("OverflowError") ELSE FZero(neg))
    ELSE OverflowIfInf(PowRound(neg, PowOdd(x, BTrailingZeros(x.man)),
                                IF iw.exp >= 0 THEN BShl(iw.man, iw.exp)
                                ELSE BShr(iw.man, 0 - iw.exp),
                                150, ulp))

PowExponent(x, iw, ulp) ==
    IF IsRaise(iw) THEN iw
    ELSE IF IsZero(iw) THEN RoundD(FALSE, <<1>>, 0, FALSE)
    ELSE PowSigned(x, iw, x.neg /\ iw.exp <= 0 /\ BBit(iw.man, 0 - iw.exp) = 1,
                   ulp)

\* float_pow(x, n) for a float x and an int n >= 0, with a pow that is ulp
\* away from the nearest float on the powers that are not exact
FPow(x, n, ulp) == PowExponent(x, FloatOfInt(n), ulp)

----------------------------------------------------------------------------
(* round(x, 2) on a float: double_round rounds the exact binary value to 2 *)
(* decimals, ties to even (dtoa, mode 3), and reads the decimal back as a  *)
(* float (strtod).                                                         *)

\* q is t without its sh low bits, sh >= 1: to nearest, ties to even
RoundNearest(t, sh, q) ==
    IF BBit(t, sh - 1) = 1 /\ (BAnyBelow(t, sh - 1) \/ BBit(q, 0) = 1)
    THEN BAdd(q, <<1>>) ELSE q

RoundHalfEven(t, sh) == RoundNearest(t, sh, BShr(t, sh))

\* the integer nearest to m * 2^e * 10^nd, ties to even, for e < 0
RoundScaled(m, e, nd) == RoundHalfEven(BMul(m, BPowSmall(10, nd)), 0 - e)

\* round(x, nd) left out
FRoundNone(x, nd) == x

FRound(x, nd) ==
    IF x.cls # "fin" THEN x
    ELSE IF x.exp >= 0 \/ x.man = <<>> THEN x
    ELSE FromRat(x.neg, RoundScaled(x.man, x.exp, nd), BPowSmall(10, nd))

----------------------------------------------------------------------------
(* float(s) and int(s) on a string.  A string is a sequence of one-        *)
(* character strings.                                                      *)

\* A text is the sequence of the code points of its characters.  The
\* printable ASCII characters, from the space (32) to the tilde (126); the
\* place of the backquote (96), which no string can hold, is left empty:
Printable == <<
    " ", "!", "\"", "#", "$", "%", "&", "'", "(", ")", "*", "+", ",", "-",
    ".", "/", "0", "1", "2", "3", "4", "5", "6", "7", "8", "9", ":", ";", "<",
    "=", ">", "?", "@", "A", "B", "C", "D", "E", "F", "G", "H", "I", "J", "K",
    "L", "M", "N", "O", "P", "Q", "R", "S", "T", "U", "V", "W", "X", "Y", "Z",
    "[", "\\", "]", "^", "_", "", "a", "b", "c", "d", "e", "f", "g", "h",
    "i", "j", "k", "l", "m", "n", "o", "p", "q", "r", "s", "t", "u", "v", "w",
    "x", "y", "z", "{", "|", "}", "~" >>

\* the code point of a printable ASCII character
Ord(ch) == 31 + (CHOOSE k \in 1..Len(Printable) : Printable[k] = ch)

\* the text written with printable ASCII characters
Text(s) == [i \in 1..Len(s) |-> Ord(s[i])]

IsAsciiDigit(c) == c \in 48..57

\* float(), int() and the \d of a pattern read every decimal digit of the
\* Unicode database, not only "0".."9": the code points of the digits 0, each
\* followed by its digits 1..9
DecimalZeros == {
    48, 1632, 1776, 1984, 2406, 2534, 2662, 2790, 2918, 3046, 3174, 3302,
    3430, 3558, 3664, 3792, 3872, 4160, 4240, 6112, 6160, 6470, 6608, 6784,
    6800, 6992, 7088, 7232, 7248, 42528, 43216, 43264, 43472, 43504, 43600,
    44016, 65296, 66720, 68912, 69734, 69872, 69942, 70096, 70384, 70736,
    70864, 71248, 71360, 71472, 71904, 72016, 72784, 73040, 73120, 92768,
    92864, 93008, 120782, 120792, 120802, 120812, 120822, 123200, 123632,
    125264, 130032 }

\* the decimal value of a character, -1 when it is not a decimal digit
DigitVal(c) ==
    IF IsAsciiDigit(c) THEN c - 48
    ELSE IF \E z \in DecimalZeros : c \in z..(z + 9)
    THEN c - (CHOOSE z \in DecimalZeros : c \in z..(z + 9))
    ELSE -1

IsDigit(c) == DigitVal(c) >= 0

\* the whitespace float() and int() skip: \t, \n, the vertical tab, \f, \r
\* and the space, and the Unicode whitespace beyond ASCII (U+0085, U+00A0,
\* U+1680, U+2000..U+200A, U+2028, U+2029, U+202F, U+205F, U+3000), which is
\* turned into a space before the text is read
IsSpace(c) ==
    c \in (9..13) \cup {32, 133, 160, 5760} \cup (8192..8202)
            \cup {8232, 8233, 8239, 8287, 12288}

IsSign(c) == c \in {Ord("+"), Ord("-")}

\* the lower case of an ASCII letter
Lower(c) == IF c \in 65..90 THEN c + 32 ELSE c

\* s without its leading and trailing whitespace
Strip(s) ==
    IF \A i \in 1..Len(s) : IsSpace(s[i]) THEN <<>>
    ELSE SubSeq(s,
                CHOOSE i \in 1..Len(s) :
                    ~IsSpace(s[i]) /\ \A j \in 1..(i - 1) : IsSpace(s[j]),
                CHOOSE i \in 1..Len(s) :
                    ~IsSpace(s[i]) /\ \A j \in (i + 1)..Len(s) : IsSpace(s[j]))

\* an underscore stands only between two digits
UnderscoresOK(s) ==
    \A i \in 1..Len(s) :
        s[i] = Ord("_") => /\ i > 1 /\ IsDigit(s[i - 1])
                      /\ i < Len(s) /\ IsDigit(s[i + 1])

NotUnderscore(c) == c # Ord("_")

\* the end of the run of digits that starts at i (i - 1 when there is none)
RunEnd(t, i) ==
    CHOOSE j \in (i - 1)..Len(t) :
        /\ \A k \in i..j : IsDigit(t[k])
        /\ (j = Len(t) \/ ~IsDigit(t[j + 1]))

RECURSIVE DigitsVal(_, _, _)
\* the number written by the digits t[i..j]
DigitsVal(t, i, j) ==
    IF i > j THEN <<>>
    ELSE IF i = j THEN BFromInt(DigitVal(t[i]))
    ELSE BAdd(BMul(DigitsVal(t, i, (i + j) \div 2),
                   BPowSmall(10, j - ((i + j) \div 2))),
              DigitsVal(t, ((i + j) \div 2) + 1, j))

\* strtod: the float nearest to (-1)^neg * d * 10^e10, d written with nd digits
FromDecimal(neg, d, e10, nd) ==
    IF d = <<>> THEN FZero(neg)
    ELSE IF e10 > 310 THEN FInf(neg)
    ELSE IF e10 + nd < -330 THEN FZero(neg)
    ELSE IF e10 >= 0 THEN RoundD(neg, BMul(d, BPowSmall(10, e10)), 0, FALSE)
    ELSE FromRat(neg, d, BPowSmall(10, 0 - e10))

\* float(s) reads a text t without underscores whose digits start at i1: the
\* integer digits are t[i1..j1], the fraction digits t[i2..j2], the exponent
\* is e
StrMantissa(t, neg, i1, j1, i2, j2, e) ==
    IF (j1 - i1 + 1) + (j2 - i2 + 1) < 1 THEN Raise("ValueError")
    ELSE FromDecimal(neg,
                     BAdd(BMul(DigitsVal(t, i1, j1), BPowSmall(10, j2 - i2 + 1)),
                          DigitsVal(t, i2, j2)),
                     e - (j2 - i2 + 1),
                     (j1 - i1 + 1) + (j2 - i2 + 1))

\* strtod keeps an exponent of at most 9 digits and takes any longer one
\* as MaxAbsExp
MaxAbsExp == 1100000000

StrExpValue(ev) ==
    IF BBitLen(ev) > 30 THEN MaxAbsExp
    ELSE IF BToInt(ev) >= 1000000000 THEN MaxAbsExp
    ELSE BToInt(ev)

\* the exponent digits are t[i3..j3] and must end the text
StrExpDigits(t, neg, i1, j1, i2, j2, eneg, i3, j3) ==
    IF j3 < i3 \/ j3 # Len(t) THEN Raise("ValueError")
    ELSE StrMantissa(t, neg, i1, j1, i2, j2,
                     (IF eneg THEN -1 ELSE 1) * StrExpValue(DigitsVal(t, i3, j3)))

StrExpSign(t, neg, i1, j1, i2, j2, esg) ==
    StrExpDigits(t, neg, i1, j1, i2, j2, esg /\ t[j2 + 2] = Ord("-"),
                 IF esg THEN j2 + 3 ELSE j2 + 2,
                 RunEnd(t, IF esg THEN j2 + 3 ELSE j2 + 2))

StrFraction(t, neg, i1, j1, i2, j2) ==
    IF j2 = Len(t) THEN StrMantissa(t, neg, i1, j1, i2, j2, 0)
    ELSE IF Lower(t[j2 + 1]) = Ord("e")
    THEN StrExpSign(t, neg, i1, j1, i2, j2, j2 + 2 <= Len(t) /\ IsSign(t[j2 + 2]))
    ELSE Raise("ValueError")

StrInteger(t, neg, i1, j1) ==
    StrFraction(t, neg, i1, j1,
                IF j1 < Len(t) /\ t[j1 + 1] = Ord(".") THEN j1 + 2 ELSE j1 + 1,
                IF j1 < Len(t) /\ t[j1 + 1] = Ord(".") THEN RunEnd(t, j1 + 2) ELSE j1)

\* word is the text after its sign, in lower case
StrWord(t, neg, word) ==
    IF word \in {Text(<<"i", "n", "f">>),
                 Text(<<"i", "n", "f", "i", "n", "i", "t", "y">>)}
    THEN FInf(neg)
    ELSE IF word = Text(<<"n", "a", "n">>) THEN FNan
    ELSE StrInteger(t, neg, Len(t) + 1 - Len(word),
                    RunEnd(t, Len(t) + 1 - Len(word)))

StrSign(t, sgn) ==
    StrWord(t, sgn /\ t[1] = Ord("-"),
            IF sgn THEN [i \in 1..(Len(t) - 1) |-> Lower(t[i + 1])]
            ELSE [i \in 1..Len(t) |-> Lower(t[i])])

StrText(u) ==
    IF ~UnderscoresOK(u) THEN Raise("ValueError")
    ELSE StrSign(SelectSeq(u, NotUnderscore), u # <<>> /\ IsSign(u[1]))

\* float(s) for a string s: a float, or ValueError
FloatOfStr(s) == StrText(Strip(s))

\* sys.int_max_str_digits: int() raises ValueError on a text of more digits
IntMaxStrDigits == 4300

IntValueError == [cls |-> "ValueError", neg |-> FALSE, mag |-> <<>>]

\* the digits of the int start at i1 and run to the end of the text
IntDigits(t, sgn, i1) ==
    IF Len(t) - i1 + 1 > IntMaxStrDigits THEN IntValueError
    ELSE IF i1 <= Len(t) /\ RunEnd(t, i1) = Len(t)
    THEN MkInt(sgn /\ t[1] = Ord("-"), DigitsVal(t, i1, Len(t)))
    ELSE IntValueError

IntSign(t, sgn) == IntDigits(t, sgn, IF sgn THEN 2 ELSE 1)

IntText(u) ==
    IF ~UnderscoresOK(u) THEN IntValueError
    ELSE IntSign(SelectSeq(u, NotUnderscore), u # <<>> /\ IsSign(u[1]))

\* int(s) for a string s, base 10: an int, or ValueError
IntOfStr(s) == IntText(Strip(s))

----------------------------------------------------------------------------
(* calculate_emi_api, src/UI/app.py lines 476-498.  A query string is a    *)
(* record of the three parameters, each a text or absent.                  *)

\* the key is not in request.args
NoParam == <<-1>>

\* float(request.args.get(key, 0)): the default is the int 0
FloatArg(v) == IF v = NoParam THEN FloatOfInt(IntZero) ELSE FloatOfStr(v)

\* int(request.args.get(key, 0))
IntArg(v) == IF v = NoParam THEN IntZero ELSE IntOfStr(v)

\* a local variable of the call that is not bound yet
Unbound == [cls |-> "unbound", neg |-> FALSE, man |-> <<>>, exp |-> 0]
UnboundInt == [cls |-> "unbound", neg |-> FALSE, mag |-> <<>>]

\* the locals of a call before its first statement; exc is the exception in
\* flight, "" if none
NoLocals ==
    [principal |-> Unbound, rate |-> Unbound, tenure |-> UnboundInt,
     monthly_rate |-> Unbound, emi |-> Unbound, total_amount |-> Unbound,
     total_interest |-> Unbound, exc |-> ""]

\* line 482 has run: t is int(tenure) or what it raised
AfterTenure(p, r, t) ==
    IF t.cls # "int"
    THEN [NoLocals EXCEPT !.principal = p, !.rate = r, !.exc = t.cls]
    ELSE [NoLocals EXCEPT !.principal = p, !.rate = r, !.tenure = t]

\* line 481 has run: r is float(rate) or what it raised
AfterRate(a, p, r) ==
    IF IsRaise(r) THEN [NoLocals EXCEPT !.principal = p, !.exc = r.cls]
    ELSE AfterTenure(p, r, IntArg(a.tenure))

\* line 480 has run: p is float(principal) or what it raised
AfterPrincipal(a, p) ==
    IF IsRaise(p) THEN [NoLocals EXCEPT !.exc = p.cls]
    ELSE AfterRate(a, p, FloatArg(a.rate))

\* lines 480-482: the three conversions, in order, stopping at the first that
\* raises
ParseArgs(a) == AfterPrincipal(a, FloatArg(a.principal))

\* line 484 with 'and' in the place of 'or'
InvalidAll(principal, rate, tenure) ==
    /\ FLe(principal, FZero(FALSE))
    /\ FLe(rate, FZero(FALSE))
    /\ IntLeZero(tenure)

\* line 484: principal <= 0 or rate <= 0 or tenure <= 0
Invalid(principal, rate, tenure) ==
    \/ FLe(principal, FZero(FALSE))
    \/ FLe(rate, FZero(FALSE))
    \/ IntLeZero(tenure)

\* the int literals of lines 487 and 488 as floats
FloatOfSmall(k) == FloatOfInt(MkInt(FALSE, BFromInt(k)))

\* line 487: rate / (12 * 100)
MonthlyRate(rate) == FDiv(rate, FloatOfSmall(12 * 100))

\* line 488, given pw = (1 + monthly_rate) ** tenure:
\* principal * monthly_rate * pw / (pw - 1)
EmiFormula(principal, monthly_rate, pw) ==
    IF IsRaise(pw) THEN pw
    ELSE FDiv(FMul(FMul(principal, monthly_rate), pw), FSub(pw, FloatOfSmall(1)))

\* emi * t, t being the tenure as a float or what its conversion raised
TimesTenure(emi, t) == IF IsRaise(t) THEN t ELSE FMul(emi, t)

\* line 489 on the installment already rounded for the response
TotalAmountOfRounded(emi, tenure) == TimesTenure(FRound(emi, 2), FloatOfInt(tenure))

\* line 489: emi * tenure
TotalAmount(emi, tenure) == TimesTenure(emi, FloatOfInt(tenure))

\* line 490: total_amount - principal
TotalInterest(total_amount, principal) == FSub(total_amount, principal)

\* line 489 has run: ta is the total amount or what it raised
AfterTotalAmount(l, m, e, ta) ==
    IF IsRaise(ta) THEN [l EXCEPT !.monthly_rate = m, !.emi = e, !.exc = ta.cls]
    ELSE [l EXCEPT !.monthly_rate = m, !.emi = e, !.total_amount = ta,
                   !.total_interest = TotalInterest(ta, l.principal)]

\* line 488 has run: e is the installment or what it raised
AfterEmi(l, m, e) ==
    IF IsRaise(e) THEN [l EXCEPT !.monthly_rate = m, !.exc = e.cls]
    ELSE AfterTotalAmount(l, m, e, TotalAmount(e, l.tenure))

\* line 487 has run: m is the monthly rate or what it raised
AfterMonthlyRate(l, m, ulp) ==
    IF IsRaise(m) THEN [l EXCEPT !.exc = m.cls]
    ELSE AfterEmi(l, m, EmiFormula(l.principal, m,
                                   FPow(FAdd(FloatOfSmall(1), m), l.tenure,
                                        ulp)))

\* lines 487-490 on the locals l, stopping at the first statement that raises
Arith(l, ulp) == AfterMonthlyRate(l, MonthlyRate(l.rate), ulp)

\* a key that a JSON body does not have
Absent == [cls |-> "absent", neg |-> FALSE, man |-> <<>>, exp |-> 0]

\* what a call gives back: the HTTP status, the 'error' string of the body
\* ("" if it has none), the three amounts of a result, and the class of the
\* exception that left the handler ("" if none)
Response(status, error, emi, total_amount, total_interest, exc) ==
    [status |-> status, error |-> error, emi |-> emi,
     total_amount |-> total_amount, total_interest |-> total_interest,
     exc |-> exc]

NoResponse == Response(0, "", Absent, Absent, Absent, "")

\* lines 485 and 498: jsonify({'error': msg}), 400
ErrorResponse(msg) == Response(400, msg, Absent, Absent, Absent, "")

\* line 497 naming TypeError alone
HandlesTypeError(exc) == exc \in {"TypeError"}

\* line 497: except (ValueError, TypeError)
Handles(exc) == exc \in {"ValueError", "TypeError"}

\* an exception raised inside the try: the except clause answers the ones it
\* names with a 400, any other leaves the handler and the server answers 500
Except(exc) ==
    IF Handles(exc) THEN ErrorResponse("Invalid input parameters")
    ELSE Response(500, "", Absent, Absent, Absent, exc)

\* lines 492-496: the three amounts, each rounded on its own
Jsonify(l) ==
    Response(200, "", FRound(l.emi, 2), FRound(l.total_amount, 2),
             FRound(l.total_interest, 2), "")

\* the arithmetic has run on the locals l
AfterArith(l) == IF l.exc # "" THEN Except(l.exc) ELSE Jsonify(l)

\* the conversions have run and left the locals l
AfterParse(l, ulp) ==
    IF l.exc # "" THEN Except(l.exc)
    ELSE IF Invalid(l.principal, l.rate, l.tenure)
         THEN ErrorResponse("Invalid parameters")
    ELSE AfterArith(Arith(l, ulp))

\* the whole call on the query string a
calculate_emi_api(a, ulp) == AfterParse(ParseArgs(a), ulp)

----------------------------------------------------------------------------
(* The handlers that go to the database, src/UI/app.py lines 37-474.  Each *)
(* is a list of the operations of its try block, in the order in which the *)
(* code runs them.                                                         *)

\* what get_db_connection returns when cx_Oracle.connect raises (line 44)
None == 0

\* a field of request.form and the conversion the handler applies to it
Field(name, conv) == [name |-> name, conv |-> conv]

Page(name, template, ops, failed) ==
    [name |-> name, kind |-> "page", listing |-> template, ops |-> ops,
     fields |-> <<>>, failed |-> failed, succeeded |-> ""]

Post(name, listing, ops, fields, failed, succeeded) ==
    [name |-> name, kind |-> "post", listing |-> listing, ops |-> ops,
     fields |-> fields, failed |-> failed, succeeded |-> succeeded]

Api(name, ops) ==
    [name |-> name, kind |-> "api", listing |-> "", ops |-> ops,
     fields |-> <<>>, failed |-> "", succeeded |-> ""]

\* the try block of a POST handler that binds no output variable
CallOps == <<"cursor", "args", "callproc", "cursor.close", "conn.close", "flash">>

\* the try block of a POST handler whose procedure returns an id
CallOpsVar ==
    <<"cursor", "var", "args", "callproc", "cursor.close", "conn.close",
      "getvalue", "flash">>

\* the try block of a page that runs n queries
QueryOps(n) ==
    <<"cursor">> \o [k \in 1..(2 * n) |-> IF k % 2 = 1 THEN "execute" ELSE "fetch"]
        \o <<"cursor.close", "conn.close", "render">>

customers ==
    Page("customers", "customers.html", QueryOps(1), "Error fetching customer data")

add_customer ==
    Post("add_customer", "customers", CallOpsVar,
         <<Field("first_name", "str"), Field("last_name", "str"),
           Field("email", "str"), Field("phone", "str"), Field("address", "str"),
           Field("date_of_birth", "date")>>,
         "Error adding customer", "Customer added successfully with ID")

accounts ==
    Page("accounts", "accounts.html", QueryOps(3), "Error fetching account data")

open_account ==
    Post("open_account", "accounts", CallOpsVar,
         <<Field("customer_id", "int"), Field("account_type_id", "int"),
           Field("initial_deposit", "float")>>,
         "Error opening account", "Account opened successfully with ID")

transactions ==
    Page("transactions", "transactions.html", QueryOps(2),
         "Error fetching transaction data")

deposit ==
    Post("deposit", "transactions", CallOps,
         <<Field("account_id", "int"), Field("amount", "float"),
           Field("description", "str")>>,
         "Error processing deposit", "Deposit processed successfully")

withdraw ==
    Post("withdraw", "transactions", CallOps,
         <<Field("account_id", "int"), Field("amount", "float"),
           Field("description", "str")>>,
         "Error processing withdrawal", "Withdrawal processed successfully")

transfer ==
    Post("transfer", "transactions", CallOps,
         <<Field("from_account_id", "int"), Field("to_account_id", "int"),
           Field("amount", "float"), Field("description", "str")>>,
         "Error processing transfer", "Transfer processed successfully")

loans == Page("loans", "loans.html", QueryOps(2), "Error fetching loan data")

apply_loan ==
    Post("apply_loan", "loans", CallOpsVar,
         <<Field("customer_id", "int"), Field("loan_type", "str"),
           Field("principal_amount", "float"), Field("interest_rate", "float"),
           Field("tenure_months", "int")>>,
         "Error applying for loan", "Loan application submitted with ID")

get_account_balance ==
    Api("get_account_balance",
        <<"cursor", "callfunc", "cursor.close", "conn.close", "float", "jsonify">>)

get_recent_transactions ==
    Api("get_recent_transactions",
        <<"cursor", "execute", "fetch", "cursor.close", "conn.close", "float",
          "jsonify">>)

get_dashboard_stats ==
    Api("get_dashboard_stats",
        <<"cursor">> \o [k \in 1..10 |-> IF k % 2 = 1 THEN "execute" ELSE "fetch"]
            \o <<"cursor.close", "conn.close", "jsonify">>)

Handlers ==
    {customers, add_customer, accounts, open_account, transactions, deposit,
     withdraw, transfer, loans, apply_loan, get_account_balance,
     get_recent_transactions, get_dashboard_stats}

\* datetime.strptime(s, '%Y-%m-%d'), line 95 ---------------------------------

\* the character at i, -1 beyond the text
At(t, i) == IF i >= 1 /\ i <= Len(t) THEN t[i] ELSE -1

\* [1-9] of the patterns: the ASCII digits only, where \d is any decimal digit
IsNonZeroDigit(c) == IsAsciiDigit(c) /\ c # Ord("0")

\* where the month that starts at i ends (the directive %m followed by the
\* '-' of the format), 0 if there is none
MonthEnd(t, i) ==
    IF /\ At(t, i) = Ord("1") /\ At(t, i + 1) \in {Ord("0"), Ord("1"), Ord("2")}
       /\ At(t, i + 2) = Ord("-")
    THEN i + 1
    ELSE IF /\ At(t, i) = Ord("0") /\ IsNonZeroDigit(At(t, i + 1))
            /\ At(t, i + 2) = Ord("-")
    THEN i + 1
    ELSE IF IsNonZeroDigit(At(t, i)) /\ At(t, i + 1) = Ord("-") THEN i
    ELSE 0

\* where the day that starts at i ends (the directive %d), 0 if there is
\* none: the first alternative of the pattern that matches is taken
DayEnd(t, i) ==
    IF At(t, i) = Ord("3") /\ At(t, i + 1) \in {Ord("0"), Ord("1")} THEN i + 1
    ELSE IF At(t, i) \in {Ord("1"), Ord("2")} /\ IsDigit(At(t, i + 1)) THEN i + 1
    ELSE IF At(t, i) = Ord("0") /\ IsNonZeroDigit(At(t, i + 1)) THEN i + 1
    ELSE IF IsNonZeroDigit(At(t, i)) THEN i
    ELSE IF At(t, i) = Ord(" ") /\ IsNonZeroDigit(At(t, i + 1)) THEN i + 1
    ELSE 0

\* the number written by t[i..j], blanks skipped
SmallVal(t, i, j) ==
    IF At(t, i) = Ord(" ") THEN BToInt(DigitsVal(t, i + 1, j))
    ELSE BToInt(DigitsVal(t, i, j))

IsLeap(y) == (y % 4 = 0 /\ y % 100 # 0) \/ y % 400 = 0

DaysInMonth(y, m) ==
    IF m = 2 THEN (IF IsLeap(y) THEN 29 ELSE 28)
    ELSE IF m \in {4, 6, 9, 11} THEN 30
    ELSE 31

DateError == [cls |-> "ValueError", year |-> 0, month |-> 0, day |-> 0]

\* datetime(y, m, d): the year is at least 1 and the day is one of the month
MkDate(y, m, d) ==
    IF y >= 1 /\ d <= DaysInMonth(y, m)
    THEN [cls |-> "datetime", year |-> y, month |-> m, day |-> d]
    ELSE DateError

\* the day runs from me + 2 to the end of the string
StrpDay(t, me, de) ==
    IF de = 0 \/ de # Len(t) THEN DateError
    ELSE MkDate(SmallVal(t, 1, 4), SmallVal(t, 6, me), SmallVal(t, me + 2, de))

StrpMonth(t, me) == IF me = 0 THEN DateError ELSE StrpDay(t, me, DayEnd(t, me + 2))

\* datetime.strptime(s, '%Y-%m-%d'): a datetime, or ValueError
Strptime(s) ==
    IF (\A i \in 1..4 : IsDigit(At(s, i))) /\ At(s, 5) = Ord("-")
    THEN StrpMonth(s, MonthEnd(s, 6))
    ELSE DateError

\* the arguments of the call -------------------------------------------------

\* the exception that request.form[name] and its conversion raise on the
\* value v, "" if none; a key that is not in the form is NoParam
ConvExc(conv, v) ==
    IF v = NoParam THEN "BadRequestKeyError"
    ELSE IF conv = "int" THEN (IF IntOfStr(v).cls = "int" THEN "" ELSE "ValueError")
    ELSE IF conv = "float" THEN (IF IsFloat(FloatOfStr(v)) THEN "" ELSE "ValueError")
    ELSE IF conv = "date" THEN (IF Strptime(v).cls = "datetime" THEN "" ELSE "ValueError")
    ELSE ""

RECURSIVE ArgsExc(_, _, _)
\* the list of arguments is built from left to right, from field k on: the
\* first exception ends it
ArgsExc(fields, form, k) ==
    IF k > Len(fields) THEN ""
    ELSE IF ConvExc(fields[k].conv, form[k]) # "" THEN ConvExc(fields[k].conv, form[k])
    ELSE ArgsExc(fields, form, k + 1)

\* a request and its handler -------------------------------------------------

Flash(message, category) == [message |-> message, category |-> category]

NoResult == [kind |-> "none", target |-> "", status |-> 0, error |-> "", empty |-> FALSE]

\* render_template(template, ...): with the rows fetched, or with empty lists
Render(template, empty) ==
    [kind |-> "render", target |-> template, status |-> 200, error |-> "",
     empty |-> empty]

\* redirect(url_for(endpoint))
Redirect(endpoint) ==
    [kind |-> "redirect", target |-> endpoint, status |-> 302, error |-> "",
     empty |-> FALSE]

\* jsonify(...), status
Json(status, error) ==
    [kind |-> "json", target |-> "", status |-> status, error |-> error,
     empty |-> FALSE]

\* the exception leaves the handler: Flask answers 400 to a missing form key
\* and 500 to everything else
Raised(exc) ==
    [kind |-> "raise", target |-> "",
     status |-> IF exc = "BadRequestKeyError" THEN 400 ELSE 500,
     error |-> exc, empty |-> FALSE]

\* a request at the entry of its handler.  conn is the connection the
\* handler holds (None before it has one), op is the operation of the try
\* block that comes next, calls counts the queries and procedure calls sent
\* to the database, call tells how the last one ended, exc is the exception
\* in flight
NewRequest(h, form) ==
    [handler |-> h, form |-> form, pc |-> "connect", conn |-> None,
     conn_state |-> "none", cursor |-> "none", op |-> 1, calls |-> 0,
     call |-> "none", exc |-> "", flashes |-> <<>>, result |-> NoResult]

NoHandler == Api("", <<>>)
NoDbRequest == [NewRequest(NoHandler, <<>>) EXCEPT !.pc = "idle"]

\* `if not conn` never taken
NotConnNever(conn) == FALSE

\* `if not conn`
NotConn(conn) == conn = None

\* the branch of `if not conn`: the error is flashed and the listing is
\* rendered empty or redirected to; the JSON handlers answer 500
ConnectionFailed(r) ==
    IF r.handler.kind = "api"
    THEN [r EXCEPT !.result = Json(500, "Database connection failed")]
    ELSE [r EXCEPT
            !.flashes = Append(@, Flash("Database connection failed", "error")),
            !.result = IF r.handler.kind = "page"
                       THEN Render(r.handler.listing, TRUE)
                       ELSE Redirect(r.handler.listing)]

\* the operations that go to the driver and may raise cx_Oracle.Error
DbOps ==
    {"cursor", "var", "execute", "fetch", "callfunc", "callproc", "cursor.close",
     "conn.close", "getvalue"}

\* the operations that send a query or a call to the database
CallOpNames == {"execute", "callfunc", "callproc"}

\* an operation of the try block that raises no database error
RunPlain(r, op, null) ==
    IF op = "cursor" THEN [r EXCEPT !.cursor = "open"]
    ELSE IF op \in CallOpNames THEN [r EXCEPT !.calls = @ + 1, !.call = "returned"]
    ELSE IF op = "cursor.close" THEN [r EXCEPT !.cursor = "closed"]
    ELSE IF op = "conn.close" THEN [r EXCEPT !.conn_state = "closed"]
    ELSE IF op = "args"
    THEN [r EXCEPT !.exc = ArgsExc(r.handler.fields, r.form, 1)]
    ELSE IF op = "float" THEN [r EXCEPT !.exc = IF null THEN "TypeError" ELSE ""]
    ELSE IF op = "flash"
    THEN [r EXCEPT !.flashes = Append(@, Flash(r.handler.succeeded, "success"))]
    ELSE IF op = "render" THEN [r EXCEPT !.result = Render(r.handler.listing, FALSE)]
    ELSE IF op = "jsonify" THEN [r EXCEPT !.result = Json(200, "")]
    ELSE r

\* an operation of the try block; fails: the driver raises on it
RunOp(r, op, fails, null) ==
    IF op \in DbOps /\ r.conn = None THEN [r EXCEPT !.exc = "AttributeError"]
    ELSE IF op \in DbOps /\ fails
    THEN [r EXCEPT !.exc = "cx_Oracle.Error",
                   !.calls = IF op \in CallOpNames THEN @ + 1 ELSE @,
                   !.call = IF op \in CallOpNames THEN "raised" ELSE @]
    ELSE RunPlain(r, op, null)

\* `except cx_Oracle.Error` without its flash
ExceptSilent(r) ==
    IF r.handler.kind = "api"
    THEN [r EXCEPT !.exc = "", !.result = Json(400, "cx_Oracle.Error")]
    ELSE IF r.handler.kind = "page"
    THEN [r EXCEPT !.exc = "", !.result = Render(r.handler.listing, TRUE)]
    ELSE [r EXCEPT !.exc = ""]

\* `except cx_Oracle.Error as e`: the error is logged and flashed; a page is
\* rendered empty, a JSON handler answers 400, a POST handler goes on to its
\* last line
ExceptError(r) ==
    IF r.handler.kind = "api"
    THEN [r EXCEPT !.exc = "", !.result = Json(400, "cx_Oracle.Error")]
    ELSE IF r.handler.kind = "page"
    THEN [r EXCEPT !.exc = "",
                   !.flashes = Append(@, Flash(r.handler.failed, "error")),
                   !.result = Render(r.handler.listing, TRUE)]
    ELSE [r EXCEPT !.exc = "",
                   !.flashes = Append(@, Flash(r.handler.failed, "error"))]

\* the last line of a POST handler: return redirect(url_for(listing))
ReturnRedirect(r) == [r EXCEPT !.result = Redirect(r.handler.listing)]

\* an exception that is no cx_Oracle.Error leaves the handler
Propagate(r) == [r EXCEPT !.result = Raised(r.exc)]

\* the request once get_db_connection has returned conn
Connected(r, conn) ==
    [r EXCEPT !.conn = conn, !.conn_state = IF conn = None THEN "none" ELSE "open"]

----------------------------------------------------------------------------
(* The configuration, src/UI/config.py, and the module globals of app.py.  *)
(* The process environment, as os.environ holds it once load_dotenv has    *)
(* run (config.py line 11), is a record of the variables the code reads: a *)
(* variable is <<>> when it is not set and <<value>> when it is.  The      *)
(* values of the three numeric settings are texts (sequences of code       *)
(* points), the others are strings.                                        *)

Unset == <<>>
IsSet(env, key) == env[key] # Unset

\* os.environ.get(key, default)
Getenv(env, key, default) == IF IsSet(env, key) THEN env[key][1] ELSE default

\* a value that `or` passes by: None, or a string without characters
Falsy(env, key) == ~IsSet(env, key) \/ Len(env[key][1]) = 0

\* os.environ.get(key) or default
GetenvOr(env, key, default) == IF Falsy(env, key) THEN default ELSE env[key][1]

\* int(os.environ.get(key) or default), config.py lines 28 and 32
IntSetting(env, key, default) ==
    IF Falsy(env, key) THEN MkInt(FALSE, BFromInt(default))
    ELSE IntOfStr(env[key][1])

\* float(os.environ.get(key) or default), config.py line 29
FloatSetting(env, key, default) ==
    IF Falsy(env, key) THEN FloatOfInt(MkInt(FALSE, BFromInt(default)))
    ELSE FloatOfStr(env[key][1])

\* the f-string of config.py line 25 and app.py line 30
Dsn(host, port, service) == host \o ":" \o port \o "/" \o service

\* class Config, config.py lines 13-32: the attributes in upper case
Config(env) ==
    [SECRET_KEY |-> GetenvOr(env, "SECRET_KEY", "dev-secret-key-change-in-production"),
     DB_USER |-> GetenvOr(env, "DB_USER", "your_username"),
     DB_PASSWORD |-> GetenvOr(env, "DB_PASSWORD", "your_password"),
     DB_HOST |-> GetenvOr(env, "DB_HOST", "localhost"),
     DB_PORT |-> GetenvOr(env, "DB_PORT", "1521"),
     DB_SERVICE |-> GetenvOr(env, "DB_SERVICE", "XE"),
     DB_DSN |-> Dsn(GetenvOr(env, "DB_HOST", "localhost"),
                    GetenvOr(env, "DB_PORT", "1521"),
                    GetenvOr(env, "DB_SERVICE", "XE")),
     ITEMS_PER_PAGE |-> IntSetting(env, "ITEMS_PER_PAGE", 20),
     MAX_TRANSACTION_AMOUNT |-> FloatSetting(env, "MAX_TRANSACTION_AMOUNT", 1000000),
     SESSION_TIMEOUT |-> IntSetting(env, "SESSION_TIMEOUT", 3600)]

\* class DevelopmentConfig(Config), lines 43-46
DevelopmentConfig(env) == Config(env) @@ [DEBUG |-> TRUE, TESTING |-> FALSE]

\* class ProductionConfig(Config), lines 48-54: SECRET_KEY is what the
\* environment holds
ProductionConfig(env) ==
    [Config(env) EXCEPT !.SECRET_KEY = Getenv(env, "SECRET_KEY", "")]
        @@ [DEBUG |-> FALSE, TESTING |-> FALSE]

\* class TestingConfig(Config), lines 58-64: DB_SERVICE is overridden, DB_DSN
\* is the one class Config has built
TestingConfig(env) ==
    [Config(env) EXCEPT !.DB_SERVICE = GetenvOr(env, "TEST_DB_SERVICE", "XETEST")]
        @@ [DEBUG |-> TRUE, TESTING |-> TRUE]

\* the keys of the dict config, lines 67-72
ConfigNames == {"development", "production", "testing", "default"}

\* config[name]
config(env, name) ==
    IF name = "production" THEN ProductionConfig(env)
    ELSE IF name = "testing" THEN TestingConfig(env)
    ELSE DevelopmentConfig(env)

\* `from config import config` (app.py line 12) and create_app() (line 24)
\* run to their end: the class bodies convert the numeric settings, the body
\* of ProductionConfig raises ValueError unless SECRET_KEY is set to
\* something (lines 55-56), whatever FLASK_ENV says, and config[config_name]
\* raises KeyError on any other name
Starts(env) ==
    /\ IntSetting(env, "ITEMS_PER_PAGE", 20).cls = "int"
    /\ IsFloat(FloatSetting(env, "MAX_TRANSACTION_AMOUNT", 1000000))
    /\ IntSetting(env, "SESSION_TIMEOUT", 3600).cls = "int"
    /\ ~Falsy(env, "SECRET_KEY")
    /\ Getenv(env, "FLASK_ENV", "development") \in ConfigNames

\* create_app(), app.py lines 15-22: app.config after from_object, which
\* copies the attributes in upper case of the class
create_app(env) == config(env, Getenv(env, "FLASK_ENV", "development"))

\* DB_CONFIG, app.py lines 27-31: app.config has no attribute 'Config', so
\* the dict is built from the environment; a variable set to '' stays ''
DbConfig(env) ==
    [user |-> Getenv(env, "DB_USER", "your_username"),
     password |-> Getenv(env, "DB_PASSWORD", "your_password"),
     dsn |-> Dsn(Getenv(env, "DB_HOST", "localhost"), Getenv(env, "DB_PORT", "1521"),
                 Getenv(env, "DB_SERVICE", "XE"))]

\* the variables of the environment that the code reads
EnvKeys ==
    {"SECRET_KEY", "FLASK_ENV", "DB_USER", "DB_PASSWORD", "DB_HOST", "DB_PORT",
     "DB_SERVICE", "TEST_DB_SERVICE", "ITEMS_PER_PAGE", "MAX_TRANSACTION_AMOUNT",
     "SESSION_TIMEOUT"}

\* nothing is set
NoEnv == [k \in EnvKeys |-> Unset]

\* a development machine: the secret alone is set
DevEnv == [NoEnv EXCEPT !["SECRET_KEY"] = <<"s3cr3t">>]

\* a deployment: the database and the settings are spelled out, the port is
\* set to ''
ProdEnv ==
    [NoEnv EXCEPT !["SECRET_KEY"] = <<"s3cr3t">>,
                  !["FLASK_ENV"] = <<"production">>,
                  !["DB_USER"] = <<"bms">>,
                  !["DB_PASSWORD"] = <<"pw">>,
                  !["DB_HOST"] = <<"db">>,
                  !["DB_PORT"] = <<"">>,
                  !["DB_SERVICE"] = <<"BANK">>,
                  !["ITEMS_PER_PAGE"] = <<Text(<<"5", "0">>)>>,
                  !["MAX_TRANSACTION_AMOUNT"] = <<Text(<<"1", "e", "6">>)>>]

\* a test run
TestEnv ==
    [NoEnv EXCEPT !["SECRET_KEY"] = <<"s3cr3t">>,
                  !["FLASK_ENV"] = <<"testing">>,
                  !["TEST_DB_SERVICE"] = <<"T">>]

\* the environments the process is started in; those without a SECRET_KEY,
\* with a FLASK_ENV that config does not know or with a setting that is no
\* number end at the import and serve no request
Environments ==
    {NoEnv, DevEnv, ProdEnv, TestEnv,
     [DevEnv EXCEPT !["FLASK_ENV"] = <<"staging">>],
     [DevEnv EXCEPT !["SECRET_KEY"] = <<"">>],
     [DevEnv EXCEPT !["SESSION_TIMEOUT"] = <<Text(<<"1", "h">>)>>]}

----------------------------------------------------------------------------
(* The module-level state of app.py and the requests in flight.  The       *)
(* server (app.run, line 501) runs each request in a thread of its own, so *)
(* the statements of the calls interleave; each call has its own frame of  *)
(* locals.                                                                 *)

\* the number of requests the server works on at a time
MaxReq == 2
Slots == 1 .. MaxReq

VARIABLES
    environ,       \* os.environ when the module is imported
    DB_CONFIG,     \* the module global of lines 27-31
    app_config,    \* app.config, loaded by create_app (lines 15-22)
    pc,            \* pc[i]: the line at which call i of calculate_emi_api stands
    args,          \* args[i]: request.args of call i
    locals,        \* locals[f]: the local variables of frame f
    response,      \* response[i]: what call i was answered
    dbreq          \* dbreq[i]: the call of a database handler in thread i

emi_vars == <<environ, DB_CONFIG, app_config, pc, args, locals, response>>
vars == <<environ, DB_CONFIG, app_config, pc, args, locals, response, dbreq>>

NoArgs == [principal |-> NoParam, rate |-> NoParam, tenure |-> NoParam]

\* one frame for all calls, as if the locals were module globals
FrameShared(i) == 1

\* the frame that holds the locals of call i: one per call
Frame(i) == i

\* the module has been imported in an environment in which the import goes
\* through; no request has arrived yet
Init ==
    /\ environ \in {env \in Environments : Starts(env)}
    /\ app_config = create_app(environ)
    /\ DB_CONFIG = DbConfig(environ)
    /\ pc = [i \in Slots |-> "idle"]
    /\ args = [i \in Slots |-> NoArgs]
    /\ locals = [f \in Slots |-> NoLocals]
    /\ response = [i \in Slots |-> NoResponse]
    /\ dbreq = [i \in Slots |-> NoDbRequest]

\* GET /api/calculate_emi?... arrives and is routed to the handler (line 476)
Request(i, a) ==
    /\ pc[i] = "idle"
    /\ pc' = [pc EXCEPT ![i] = "480"]
    /\ args' = [args EXCEPT ![i] = a]
    /\ locals' = [locals EXCEPT ![Frame(i)] = NoLocals]
    /\ response' = [response EXCEPT ![i] = NoResponse]
    /\ UNCHANGED <<environ, DB_CONFIG, app_config, dbreq>>

\* line 480: principal = float(request.args.get('principal', 0))
Line480(i) ==
    /\ pc[i] = "480"
    /\ \E p \in {FloatArg(args[i].principal)} :
           IF IsRaise(p)
           THEN /\ locals' = [locals EXCEPT ![Frame(i)].exc = p.cls]
                /\ response' = [response EXCEPT ![i] = Except(p.cls)]
                /\ pc' = [pc EXCEPT ![i] = "done"]
           ELSE /\ locals' = [locals EXCEPT ![Frame(i)].principal = p]
                /\ response' = response
                /\ pc' = [pc EXCEPT ![i] = "481"]
    /\ UNCHANGED <<environ, DB_CONFIG, app_config, args, dbreq>>

\* line 481: rate = float(request.args.get('rate', 0))
Line481(i) ==
    /\ pc[i] = "481"
    /\ \E r \in {FloatArg(args[i].rate)} :
           IF IsRaise(r)
           THEN /\ locals' = [locals EXCEPT ![Frame(i)].exc = r.cls]
                /\ response' = [response EXCEPT ![i] = Except(r.cls)]
                /\ pc' = [pc EXCEPT ![i] = "done"]
           ELSE /\ locals' = [locals EXCEPT ![Frame(i)].rate = r]
                /\ response' = response
                /\ pc' = [pc EXCEPT ![i] = "482"]
    /\ UNCHANGED <<environ, DB_CONFIG, app_config, args, dbreq>>

\* line 482: tenure = int(request.args.get('tenure', 0))
Line482(i) ==
    /\ pc[i] = "482"
    /\ \E t \in {IntArg(args[i].tenure)} :
           IF t.cls # "int"
           THEN /\ locals' = [locals EXCEPT ![Frame(i)].exc = t.cls]
                /\ response' = [response EXCEPT ![i] = Except(t.cls)]
                /\ pc' = [pc EXCEPT ![i] = "done"]
           ELSE /\ locals' = [locals EXCEPT ![Frame(i)].tenure = t]
                /\ response' = response
                /\ pc' = [pc EXCEPT ![i] = "484"]
    /\ UNCHANGED <<environ, DB_CONFIG, app_config, args, dbreq>>

\* lines 484-485: the validation and its answer
Line484(i) ==
    /\ pc[i] = "484"
    /\ IF Invalid(locals[Frame(i)].principal, locals[Frame(i)].rate,
                  locals[Frame(i)].tenure)
       THEN /\ response' = [response EXCEPT ![i] = ErrorResponse("Invalid parameters")]
            /\ pc' = [pc EXCEPT ![i] = "done"]
       ELSE /\ response' = response
            /\ pc' = [pc EXCEPT ![i] = "487"]
    /\ UNCHANGED <<environ, DB_CONFIG, app_config, args, locals, dbreq>>

\* line 487: monthly_rate = rate / (12 * 100)
Line487(i) ==
    /\ pc[i] = "487"
    /\ locals' = [locals EXCEPT ![Frame(i)].monthly_rate =
                                    MonthlyRate(locals[Frame(i)].rate)]
    /\ pc' = [pc EXCEPT ![i] = "488"]
    /\ UNCHANGED <<environ, DB_CONFIG, app_config, args, response, dbreq>>

\* line 488 in the frame l: the installment, or what the line raised; ulp is
\* how far the pow of the C library lands from the nearest float on these
\* operands, the same in both places where the line takes the power
Emi(l, ulp) ==
    EmiFormula(l.principal, l.monthly_rate,
               FPow(FAdd(FloatOfSmall(1), l.monthly_rate), l.tenure, ulp))

\* line 488: emi = principal * monthly_rate * (1 + monthly_rate) ** tenure
\*                 / ((1 + monthly_rate) ** tenure - 1)
Line488(i, ulp) ==
    /\ pc[i] = "488"
    /\ \E e \in {Emi(locals[Frame(i)], ulp)} :
           IF IsRaise(e)
           THEN /\ locals' = [locals EXCEPT ![Frame(i)].exc = e.cls]
                /\ response' = [response EXCEPT ![i] = Except(e.cls)]
                /\ pc' = [pc EXCEPT ![i] = "done"]
           ELSE /\ locals' = [locals EXCEPT ![Frame(i)].emi = e]
                /\ response' = response
                /\ pc' = [pc EXCEPT ![i] = "489"]
    /\ UNCHANGED <<environ, DB_CONFIG, app_config, args, dbreq>>

\* line 489: total_amount = emi * tenure
Line489(i) ==
    /\ pc[i] = "489"
    /\ \E ta \in {TotalAmount(locals[Frame(i)].emi, locals[Frame(i)].tenure)} :
           IF IsRaise(ta)
           THEN /\ locals' = [locals EXCEPT ![Frame(i)].exc = ta.cls]
                /\ response' = [response EXCEPT ![i] = Except(ta.cls)]
                /\ pc' = [pc EXCEPT ![i] = "done"]
           ELSE /\ locals' = [locals EXCEPT ![Frame(i)].total_amount = ta]
                /\ response' = response
                /\ pc' = [pc EXCEPT ![i] = "490"]
    /\ UNCHANGED <<environ, DB_CONFIG, app_config, args, dbreq>>

\* line 490: total_interest = total_amount - principal
Line490(i) ==
    /\ pc[i] = "490"
    /\ locals' = [locals EXCEPT ![Frame(i)].total_interest =
                                    TotalInterest(locals[Frame(i)].total_amount,
                                                  locals[Frame(i)].principal)]
    /\ pc' = [pc EXCEPT ![i] = "492"]
    /\ UNCHANGED <<environ, DB_CONFIG, app_config, args, response, dbreq>>

\* lines 492-496: the result is rounded and returned
Respond(i) ==
    /\ pc[i] = "492"
    /\ response' = [response EXCEPT ![i] = Jsonify(locals[Frame(i)])]
    /\ pc' = [pc EXCEPT ![i] = "done"]
    /\ UNCHANGED <<environ, DB_CONFIG, app_config, args, locals, dbreq>>

\* the response has been sent; the thread takes the next request
Finish(i) ==
    /\ pc[i] = "done"
    /\ pc' = [pc EXCEPT ![i] = "idle"]
    /\ args' = [args EXCEPT ![i] = NoArgs]
    /\ response' = [response EXCEPT ![i] = NoResponse]
    /\ locals' = [locals EXCEPT ![Frame(i)] = NoLocals]
    /\ UNCHANGED <<environ, DB_CONFIG, app_config, dbreq>>

----------------------------------------------------------------------------
(* The query strings the clients send.                                     *)

\* str(n) for a natural n
Dec(n) ==
    LET RECURSIVE Digits(_)
        Digits(k) == IF k < 10 THEN <<48 + k>>
                     ELSE Append(Digits(k \div 10), 48 + (k % 10))
    IN  Digits(n)

\* an amount of c hundredths written with two decimals, as '%.2f' writes it
Fixed2(c) ==
    Dec(c \div 100) \o <<Ord("."), 48 + ((c % 100) \div 10), 48 + (c % 10)>>

\* the loans of app_demo.py (lines 37-41): principal, interest rate, tenure
\* in months and EMI, the amounts as the source writes them
demo_loans ==
    << [loan_id |-> 10001, principal |-> Text(<<"5","0","0","0","0",".","0","0">>),
        interest_rate |-> Text(<<"1","2",".","5">>), tenure_months |-> 24,
        emi_amount |-> Text(<<"2","3","4","7",".","5","0">>)],
       [loan_id |-> 10002, principal |-> Text(<<"3","0","0","0","0",".","0","0">>),
        interest_rate |-> Text(<<"1","1",".","0">>), tenure_months |-> 18,
        emi_amount |-> Text(<<"1","8","0","6",".","5","0">>)],
       [loan_id |-> 10003,
        principal |-> Text(<<"5","0","0","0","0","0",".","0","0">>),
        interest_rate |-> Text(<<"8",".","5">>), tenure_months |-> 240,
        emi_amount |-> Text(<<"4","2","4","0",".","5","0">>)] >>

\* the query that asks for the EMI of a demo loan
LoanQuery(loan) ==
    [principal |-> loan.principal, rate |-> loan.interest_rate,
     tenure |-> Dec(loan.tenure_months)]

DemoInputs == {LoanQuery(demo_loans[k]) : k \in DOMAIN demo_loans}

\* tenures 1 .. MaxTenure and a year
MaxTenure == 3
TenureVals == (1 .. MaxTenure) \cup {12}

\* principals 0.01 .. MaxCents / 100 and some larger ones
MaxCents == 2
Principals ==
    {Fixed2(c) : c \in 1 .. MaxCents}
        \cup {Text(<<"0", ".", "5">>), Text(<<"3">>), Text(<<"1","0","0","0">>)}

\* yearly rates in percent, ascending
RateSeq ==
    << Text(<<"1">>), Text(<<"6">>), Text(<<"1","2",".","5">>), Text(<<"3","6">>) >>

GridInputs ==
    {[principal |-> p, rate |-> RateSeq[k], tenure |-> Dec(t)] :
        p \in Principals, k \in DOMAIN RateSeq, t \in TenureVals}

\* rates far outside the usual range: 1e-12, 1e-20, 1e300 and infinity
ExtremeRates ==
    { Text(<<"0",".","0","0","0","0","0","0","0","0","0","0","0","1">>),
      Text(<<"1","e","-","2","0">>), Text(<<"1","e","3","0","0">>),
      Text(<<"i","n","f">>) }

ExtremeInputs ==
    {[principal |-> Text(<<"1","0","0","0">>), rate |-> r, tenure |-> Dec(t)] :
        r \in ExtremeRates, t \in TenureVals}

\* parameters that are absent, zero, negative, not numbers, or fine, some
\* with whitespace around the number (a vertical tab, U+00A0, U+3000) or
\* written with the digits of another script (U+06F3, U+0662 U+0664,
\* U+FF11 U+FF12)
EdgeFloats ==
    {NoParam, Text(<<"0">>), Text(<<"-","5">>), Text(<<"a","b","c">>),
     Text(<<"n","a","n">>), Text(<<"1","2",".","5">>), <<11, 51>>, <<160, 1779>>,
     <<12288, 65297, 65298>>}
EdgeInts ==
    {NoParam, Text(<<"0">>), Text(<<"-","5">>), Text(<<"a","b","c">>),
     Text(<<"1","2",".","5">>), Text(<<"2","4">>), <<50, 11>>, <<1634, 1636>>}

EdgeInputs ==
    {[principal |-> p, rate |-> r, tenure |-> t] :
        p \in EdgeFloats, r \in EdgeFloats, t \in EdgeInts}

\* a tenure of one digit more than int() takes
LongInputs ==
    {[principal |-> Text(<<"1","0","0","0">>), rate |-> Text(<<"1","2">>),
      tenure |-> [k \in 1..(IntMaxStrDigits + 1) |-> Ord("1")]]}

\* a loan at 36 percent over 25000 months: 1.03 ** 25000 is beyond the
\* largest float
OverflowInputs ==
    {[principal |-> Text(<<"1","0","0","0">>), rate |-> Text(<<"3","6">>),
      tenure |-> Text(<<"2","5","0","0","0">>)]}

Inputs ==
    DemoInputs \cup GridInputs \cup ExtremeInputs \cup EdgeInputs \cup LongInputs
        \cup OverflowInputs

\* the inputs of the requests that run side by side
ConcInputs ==
    {LoanQuery(demo_loans[1]),
     [principal |-> Text(<<"3">>), rate |-> Text(<<"6">>), tenure |-> Text(<<"1">>)],
     [principal |-> Text(<<"3">>), rate |-> Text(<<"a","b","c">>), tenure |-> NoParam],
     [principal |-> Text(<<"3">>), rate |-> Text(<<"6">>), tenure |-> NoParam],
     [principal |-> Text(<<"1","0","0","0">>), rate |-> Text(<<"1","e","3","0","0">>),
      tenure |-> Text(<<"2">>)]}

----------------------------------------------------------------------------
\* one request at a time
Next ==
    \/ \E a \in Inputs : Request(1, a)
    \/ Line480(1)
    \/ Line481(1)
    \/ Line482(1)
    \/ Line484(1)
    \/ Line487(1)
    \/ \E ulp \in PowErrs : Line488(1, ulp)
    \/ Line489(1)
    \/ Line490(1)
    \/ Respond(1)
    \/ Finish(1)

Spec == Init /\ [][Next]_vars

\* up to MaxReq requests at a time, their statements interleaved
NextConc ==
    \E i \in Slots :
        \/ \E a \in ConcInputs : Request(i, a)
        \/ Line480(i)
        \/ Line481(i)
        \/ Line482(i)
        \/ Line484(i)
        \/ Line487(i)
        \/ \E ulp \in PowErrs : Line488(i, ulp)
        \/ Line489(i)
        \/ Line490(i)
        \/ Respond(i)
        \/ Finish(i)

SpecConc == Init /\ [][NextConc]_vars

----------------------------------------------------------------------------
(* The database handlers at work, each request in a thread of its own.  A  *)
(* step is one statement outside the try block or one operation inside it; *)
(* the connection a call has opened is the one its local conn holds.       *)

\* a request arrives in thread i and is routed to handler h
DbRequest(i, h, form) ==
    /\ dbreq[i].pc = "idle"
    /\ dbreq' = [dbreq EXCEPT ![i] = NewRequest(h, form)]
    /\ UNCHANGED emi_vars

\* lines 37-44: cx_Oracle.connect(**DB_CONFIG) gives a connection, or raises
\* and None is returned
get_db_connection(i, ok) ==
    /\ dbreq[i].pc = "connect"
    /\ dbreq' = [dbreq EXCEPT ![i] =
                    [Connected(dbreq[i], IF ok THEN i ELSE None) EXCEPT !.pc = "check"]]
    /\ UNCHANGED emi_vars

\* `if not conn:` and its branch
IfNotConn(i) ==
    /\ dbreq[i].pc = "check"
    /\ dbreq' = [dbreq EXCEPT ![i] =
                    IF NotConn(dbreq[i].conn)
                    THEN [ConnectionFailed(dbreq[i]) EXCEPT !.pc = "done"]
                    ELSE [dbreq[i] EXCEPT !.pc = "try"]]
    /\ UNCHANGED emi_vars

\* where the call goes once the operation of its try block has left it as r
AfterOp(r) ==
    IF r.exc = "cx_Oracle.Error" THEN [r EXCEPT !.pc = "except"]
    ELSE IF r.exc # "" THEN [Propagate(r) EXCEPT !.pc = "done"]
    ELSE IF r.op < Len(r.handler.ops) THEN [r EXCEPT !.op = @ + 1]
    ELSE IF r.handler.kind = "post" THEN [r EXCEPT !.pc = "return"]
    ELSE [r EXCEPT !.pc = "done"]

\* the operation of the try block at which call r stands
NextOp(r) == r.handler.ops[r.op]

\* the next operation of the try block.  fails: the driver raises on it,
\* which only a call of the driver can do; null: the database has returned
\* NULL, which shows where a number is converted
TryOp(i, fails, null) ==
    /\ dbreq[i].pc = "try"
    /\ fails => NextOp(dbreq[i]) \in DbOps
    /\ null => NextOp(dbreq[i]) = "float"
    /\ \E r \in {RunOp(dbreq[i], NextOp(dbreq[i]), fails, null)} :
           dbreq' = [dbreq EXCEPT ![i] = AfterOp(r)]
    /\ UNCHANGED emi_vars

\* the except clause
ExceptClause(i) ==
    /\ dbreq[i].pc = "except"
    /\ dbreq' = [dbreq EXCEPT ![i] =
                    [ExceptError(dbreq[i]) EXCEPT
                        !.pc = IF dbreq[i].handler.kind = "post" THEN "return"
                               ELSE "done"]]
    /\ UNCHANGED emi_vars

\* the last line of a POST handler
Return(i) ==
    /\ dbreq[i].pc = "return"
    /\ dbreq' = [dbreq EXCEPT ![i] = [ReturnRedirect(dbreq[i]) EXCEPT !.pc = "done"]]
    /\ UNCHANGED emi_vars

\* the response has been sent; the thread takes the next request
DbFinish(i) ==
    /\ dbreq[i].pc = "done"
    /\ dbreq' = [dbreq EXCEPT ![i] = NoDbRequest]
    /\ UNCHANGED emi_vars

\* the values the clients put in a form field: text; an int, an int after a
\* vertical tab, no number, a missing key; a number, no number; a date, the
\* 30th of February, a date in another format
FormValues(conv) ==
    IF conv = "int"
    THEN {Text(<<"1">>), <<11, 1633>>, Text(<<"a", "b", "c">>), NoParam}
    ELSE IF conv = "float"
    THEN {Text(<<"1", "0", ".", "5">>), Text(<<"a", "b", "c">>)}
    ELSE IF conv = "date"
    THEN {Text(<<"1", "9", "9", "0", "-", "0", "2", "-", "2", "8">>),
          Text(<<"1", "9", "9", "0", "-", "0", "2", "-", "3", "0">>),
          Text(<<"2", "8", "/", "0", "2", "/", "1", "9", "9", "0">>)}
    ELSE {Text(<<"x">>)}

RECURSIVE FormsUpTo(_, _)
\* the values of the first k fields
FormsUpTo(fields, k) ==
    IF k = 0 THEN {<<>>}
    ELSE {Append(f, v) : f \in FormsUpTo(fields, k - 1),
                         v \in FormValues(fields[k].conv)}

Forms(h) == FormsUpTo(h.fields, Len(h.fields))

\* the requests that arrive while another is being served: a deposit, a
\* deposit without its amount, and a balance enquiry
SideRequests ==
    {[handler |-> deposit,
      form |-> <<Text(<<"1">>), Text(<<"1", "0", ".", "5">>), Text(<<"x">>)>>],
     [handler |-> deposit, form |-> <<Text(<<"1">>), NoParam, Text(<<"x">>)>>],
     [handler |-> get_account_balance, form |-> <<>>]}

\* thread 1 serves every handler on every form, the other threads serve the
\* side requests; the steps of the threads interleave
NextDb ==
    \/ \E h \in Handlers : \E form \in Forms(h) : DbRequest(1, h, form)
    \/ \E i \in Slots \ {1} : \E q \in SideRequests : DbRequest(i, q.handler, q.form)
    \/ \E i \in Slots : \E ok \in BOOLEAN : get_db_connection(i, ok)
    \/ \E i \in Slots : IfNotConn(i)
    \/ \E i \in Slots : \E fails \in BOOLEAN : \E null \in BOOLEAN :
           TryOp(i, fails, null)
    \/ \E i \in Slots : ExceptClause(i)
    \/ \E i \in Slots : Return(i)
    \/ \E i \in Slots : DbFinish(i)

SpecDb == Init /\ [][NextDb]_vars

----------------------------------------------------------------------------
(* Properties of the answers.  A request is settled once it is done: its   *)
(* arguments, the locals of its call and its response are then all in the  *)
(* state.                                                                  *)

Done(i) == pc[i] = "done"

\* the call answered with the result object
Succeeded(i) == Done(i) /\ response[i].status = 200

\* the call answered with the error object and status 400, and no amounts
Rejected(i) ==
    /\ Done(i)
    /\ response[i].status = 400
    /\ response[i].error # ""
    /\ response[i].emi = Absent
    /\ response[i].total_amount = Absent
    /\ response[i].total_interest = Absent

\* the effective value of a float parameter is a number and is <= 0
FloatNonPositive(v) == IsFloat(FloatArg(v)) /\ FLe(FloatArg(v), FZero(FALSE))

\* the effective value of the tenure is an int and is <= 0
IntNonPositive(v) == IntArg(v).cls = "int" /\ IntLeZero(IntArg(v))

\* some parameter of the query is zero, negative or left out
SomeNonPositive(a) ==
    \/ FloatNonPositive(a.principal)
    \/ FloatNonPositive(a.rate)
    \/ IntNonPositive(a.tenure)

\* C1: a request in which the effective value of principal, rate or tenure is
\* zero or negative (a parameter left out counts as 0) is answered with the
\* error object and status 400 and with no amounts, whatever the other two
\* parameters are.
C1_NonPositiveRejected ==
    \A i \in Slots : Done(i) /\ SomeNonPositive(args[i]) => Rejected(i)

\* C1 happens: the tenure alone is left out, principal and rate are fine, and
\* the request has been rejected
C1_Witness ==
    \E i \in Slots :
        /\ Rejected(i)
        /\ args[i].tenure = NoParam
        /\ ~FloatNonPositive(args[i].principal) /\ IsFloat(FloatArg(args[i].principal))
        /\ ~FloatNonPositive(args[i].rate) /\ IsFloat(FloatArg(args[i].rate))

\* some parameter of the query does not parse
SomeUnparsable(a) ==
    \/ IsRaise(FloatArg(a.principal))
    \/ IsRaise(FloatArg(a.rate))
    \/ IntArg(a.tenure).cls # "int"

\* C2: a request in which principal or rate does not parse as a number, or
\* tenure does not parse as an integer, is answered with the error object and
\* status 400, and none of the arithmetic of lines 487-490 has run in its
\* call.
C2_UnparsableRejected ==
    \A i \in Slots :
        Done(i) /\ SomeUnparsable(args[i]) =>
            /\ Rejected(i)
            /\ locals[Frame(i)].monthly_rate = Unbound
            /\ locals[Frame(i)].emi = Unbound
            /\ locals[Frame(i)].total_amount = Unbound
            /\ locals[Frame(i)].total_interest = Unbound

\* C2 happens: principal and rate parse, the tenure is not an integer, and the
\* request has been rejected
C2_Witness ==
    \E i \in Slots :
        /\ Rejected(i)
        /\ IsFloat(FloatArg(args[i].principal))
        /\ IsFloat(FloatArg(args[i].rate))
        /\ IntArg(args[i].tenure).cls = "ValueError"

\* C3: every request ends either with the result object or with the error
\* object and status 400; no exception leaves the handler.
C3_SuccessOrRejected ==
    \A i \in Slots :
        Done(i) => (Succeeded(i) \/ Rejected(i)) /\ response[i].exc = ""

\* the tenure of request i as a number (tenures are below 2^30)
TenureOf(i) == BToInt(locals[Frame(i)].tenure.mag)

\* the call answered with the result object for a finite principal and rate
SucceededFinite(i) ==
    /\ Succeeded(i)
    /\ locals[Frame(i)].principal.cls = "fin"
    /\ locals[Frame(i)].rate.cls = "fin"

RECURSIVE BPow(_, _)
\* a^n, by squaring
BPow(a, n) ==
    IF n = 0 THEN <<1>>
    ELSE LET h == BPow(a, n \div 2)
         IN  IF n % 2 = 1 THEN BMul(BMul(h, h), a) ELSE BMul(h, h)

\* x * 2^e for e >= 0, x for e < 0
BScaleUp(x, e) == IF e > 0 THEN BShl(x, e) ELSE x

\* The amortization formula in exact arithmetic.  With the rate r = a / b * 1200
\* (a the rate's mantissa, b = 1200 * 2^k), m = a / b and f = ((a + b) / b)^t,
\* so that principal * m * f / (f - 1), counted in cents, is
\*   100 * principal * a * (a + b)^t / (b * ((a + b)^t - b^t)).
RefRateNum(r) == BScaleUp(r.man, r.exp)
RefRateDen(r) == BScaleUp(BFromInt(12 * 100), 0 - r.exp)

RefCentsNum(p, r, t) ==
    BMul(BMul(BMulSmall(BScaleUp(p.man, p.exp), 100), RefRateNum(r)),
         BPow(BAdd(RefRateNum(r), RefRateDen(r)), t))

RefCentsDen(p, r, t) ==
    BMul(BScaleUp(RefRateDen(r), 0 - p.exp),
         BSub(BPow(BAdd(RefRateNum(r), RefRateDen(r)), t), BPow(RefRateDen(r), t)))

\* the float that stands for an amount of c cents
OfCents(c) == FromRat(FALSE, c, BFromInt(100))

\* x is the quotient q + r / d rounded to a whole number of cents, a tie
\* going either way
IsRounded(x, qr, d) ==
    \/ BCmp(BMulSmall(qr.r, 2), d) <= 0 /\ x = OfCents(qr.q)
    \/ BCmp(BMulSmall(qr.r, 2), d) >= 0 /\ x = OfCents(BAdd(qr.q, <<1>>))

\* x is n / d rounded to a whole number of cents
IsRoundedRatio(x, n, d) == \E qr \in {BDivMod(n, d)} : IsRounded(x, qr, d)

\* the emi of the result of request i is the formula's value n / d, in cents
EmiIsRatio(i, n, d) == IsRoundedRatio(response[i].emi, n, d)

\* C4: for a finite principal > 0, rate > 0 and tenure > 0 the emi of the
\* result is principal * m * f / (f - 1) rounded to 2 decimals, with
\* m = rate / 1200 and f = (1 + m)^tenure.
C4_EmiIsFormula ==
    \A i \in Slots :
        SucceededFinite(i) =>
            \E n \in {RefCentsNum(locals[Frame(i)].principal,
                                  locals[Frame(i)].rate, TenureOf(i))} :
                \E d \in {RefCentsDen(locals[Frame(i)].principal,
                                      locals[Frame(i)].rate, TenureOf(i))} :
                    EmiIsRatio(i, n, d)

\* the float nearest to e * t in exact arithmetic, for a float e >= 0 and an
\* int t > 0 (the tenures are below 2^53, so that float(t) is t)
NearestProduct(e, t) ==
    FromRat(FALSE, BScaleUp(BMul(e.man, t.mag), e.exp), BScaleUp(<<1>>, 0 - e.exp))

\* the float z >= 0 is x, counted in cents, rounded to a whole number of
\* cents; an infinite x stays as it is
IsCentsOf(z, x) ==
    IF x.cls = "fin"
    THEN IsRoundedRatio(z, BMulSmall(BScaleUp(x.man, x.exp), 100),
                        BScaleUp(<<1>>, 0 - x.exp))
    ELSE z = x

\* z is the installment e times the tenure t, rounded to 2 decimals: the
\* product is the float nearest to e * t, and z the float nearest to that
\* product's nearest whole number of cents
IsTotalOf(z, e, t) == IsCentsOf(z, NearestProduct(e, t))

\* the call answered with a result whose installment was a finite number
SucceededNumber(i) ==
    /\ Succeeded(i)
    /\ locals[Frame(i)].emi.cls = "fin"
    /\ ~locals[Frame(i)].emi.neg

\* C5 as the code has it: the total_amount of the result is the installment
\* as line 488 has computed it, not yet rounded, times the tenure, and that
\* rounded to 2 decimals.
C5_TotalOfUnroundedEmi ==
    \A i \in Slots :
        SucceededNumber(i) =>
            IsTotalOf(response[i].total_amount, locals[Frame(i)].emi,
                      locals[Frame(i)].tenure)

\* C5 happens: a result whose total_amount is not what its emi field gives
C5_Witness ==
    \E i \in Slots :
        /\ SucceededNumber(i)
        /\ response[i].total_amount.cls = "fin"
        /\ ~IsTotalOf(response[i].total_amount, response[i].emi,
                      locals[Frame(i)].tenure)

\* C5 as claimed: the total_amount of the result is the emi of the result
\* (2 decimals) times the tenure, rounded to 2 decimals.
C5_TotalOfReturnedEmi ==
    \A i \in Slots :
        SucceededNumber(i) /\ response[i].emi.cls = "fin" =>
            IsTotalOf(response[i].total_amount, response[i].emi,
                      locals[Frame(i)].tenure)

\* C6: the emi of every result is greater than 0.
C6_EmiPositive ==
    \A i \in Slots : Succeeded(i) => FLt(FZero(FALSE), response[i].emi)

\* the queries with the principal and rate of a and a longer tenure
LongerTenure(a, S) ==
    {b \in S : /\ b.principal = a.principal
               /\ b.rate = a.rate
               /\ IntArg(b.tenure).cls = "int"
               /\ ~IntArg(b.tenure).neg
               /\ BCmp(IntArg(a.tenure).mag, IntArg(b.tenure).mag) < 0}

\* the queries with the principal and tenure of a and a higher rate
HigherRate(a, S) ==
    {b \in S : /\ b.principal = a.principal
               /\ b.tenure = a.tenure
               /\ IsFloat(FloatArg(b.rate))
               /\ FLt(FloatArg(a.rate), FloatArg(b.rate))}

\* C7: for a fixed principal > 0 and rate > 0, any longer tenure gives a
\* result with a smaller emi and a larger total_interest.  Smaller and
\* larger are taken in the weak sense here, so that two results which round
\* to the same cents do not count against the claim: what fails this fails
\* the strict claim too.
C7_LongerTenure ==
    \A i \in Slots :
        SucceededFinite(i) =>
            \A b \in LongerTenure(args[i], Inputs) : \A ulp \in PowErrs :
                \E r2 \in {calculate_emi_api(b, ulp)} :
                    /\ r2.status = 200
                    /\ FLe(r2.emi, response[i].emi)
                    /\ FLe(response[i].total_interest, r2.total_interest)

\* C8: for a fixed principal > 0 and tenure > 0, any higher rate gives a
\* result with a larger emi and a larger total_interest.  Larger is taken in
\* the weak sense here, as for C7: what fails this fails the strict claim
\* too.
C8_HigherRate ==
    \A i \in Slots :
        SucceededFinite(i) =>
            \A b \in HigherRate(args[i], Inputs) : \A ulp \in PowErrs :
                \E r2 \in {calculate_emi_api(b, ulp)} :
                    /\ r2.status = 200
                    /\ FLe(response[i].emi, r2.emi)
                    /\ FLe(response[i].total_interest, r2.total_interest)

\* what the handler answers for the loans of the demo dataset, in cents
DemoAnswers ==
    << [emi |-> 236537, total_amount |-> 5676877, total_interest |-> 676877],
       [emi |-> 181556, total_amount |-> 3268001, total_interest |-> 268001],
       [emi |-> 433912, total_amount |-> 104138788, total_interest |-> 54138788] >>

\* |x - y| <= tol
Near(x, y, tol) ==
    \E d \in {FSub(x, y)} : d.cls = "fin" /\ FLe([d EXCEPT !.neg = FALSE], tol)

\* request i asks for the EMI of demo loan k and is done
DemoDone(i, k) == Done(i) /\ args[i] = LoanQuery(demo_loans[k])

\* C9 as the code has it: for the loans of the demo dataset the handler
\* answers the amortization values (2365.37, 56768.77 and 6768.77 for
\* 50000 at 12.5 percent over 24 months, emi 1815.56 for the second loan
\* and 4339.12 for 500000 at 8.5 percent over 240 months), and these emi lie
\* more than half a unit away from the emi_amount stored in the dataset.
C9_DemoAnswers ==
    \A i \in Slots : \A k \in DOMAIN demo_loans :
        DemoDone(i, k) =>
            /\ Succeeded(i)
            /\ response[i].emi = OfCents(BFromInt(DemoAnswers[k].emi))
            /\ response[i].total_amount = OfCents(BFromInt(DemoAnswers[k].total_amount))
            /\ response[i].total_interest =
                   OfCents(BFromInt(DemoAnswers[k].total_interest))
            /\ ~Near(response[i].emi, FloatOfStr(demo_loans[k].emi_amount),
                     OfCents(BFromInt(50)))

\* C9 happens: the request for the first demo loan has been answered
C9_Witness == \E i \in Slots : DemoDone(i, 1) /\ Succeeded(i)

\* C9 as claimed: the emi answered for a demo loan is the emi_amount of the
\* dataset, within 0.01 for the first loan (with total_amount 56340.00 and
\* total_interest 6340.00 within 0.5) and within 0.5 for the others.
C9_MatchesDataset ==
    \A i \in Slots : \A k \in DOMAIN demo_loans :
        DemoDone(i, k) =>
            /\ Succeeded(i)
            /\ Near(response[i].emi, FloatOfStr(demo_loans[k].emi_amount),
                    OfCents(BFromInt(IF k = 1 THEN 1 ELSE 50)))
            /\ k = 1 => /\ Near(response[i].total_amount, OfCents(BFromInt(5634000)),
                                OfCents(BFromInt(50)))
                        /\ Near(response[i].total_interest, OfCents(BFromInt(634000)),
                                OfCents(BFromInt(50)))

\* the responses the handler gives for the query a alone, one for each way
\* pow may round
Answers(a) == {calculate_emi_api(a, ulp) : ulp \in PowErrs}

\* the same for each of the queries that run side by side
ConcAnswers == [a \in ConcInputs |-> Answers(a)]

\* C10: the module globals are what the import has made of the environment
\* and never change; whatever the interleaving of the calls and however
\* often a query is repeated, a call's response is one the handler gives for
\* its own query alone, and calls with the same query get the same response.
C10_Stateless ==
    /\ app_config = create_app(environ)
    /\ DB_CONFIG = DbConfig(environ)
    /\ \A i \in Slots : Done(i) => response[i] \in ConcAnswers[args[i]]
    /\ \A i, j \in Slots :
           Done(i) /\ Done(j) /\ args[i] = args[j] => response[i] = response[j]

\* C10 happens: two calls with the same query are done with a result, the
\* pow of the one having rounded otherwise than the pow of the other
C10_Witness ==
    \E i, j \in Slots :
        /\ i # j /\ Succeeded(i) /\ Succeeded(j)
        /\ args[i] = args[j]
        /\ locals[Frame(i)].emi # locals[Frame(j)].emi

----------------------------------------------------------------------------
(* Properties of the database handlers.                                    *)

\* the handler of the database request in thread i has returned or raised
DbDone(i) == dbreq[i].pc = "done"

\* the request has flashed a message of the category
HasFlash(r, category) ==
    \E k \in 1..Len(r.flashes) : r.flashes[k].category = category

\* what C11 says of a call r whose get_db_connection has returned None
NoConnection(r) ==
    /\ r.calls = 0
    /\ r.cursor = "none"
    /\ r.pc = "done" =>
          IF r.handler.kind = "api"
          THEN /\ r.flashes = <<>>
               /\ r.result.kind = "json"
               /\ r.result.status = 500
               /\ r.result.error = "Database connection failed"
          ELSE /\ r.flashes =
                      <<[message |-> "Database connection failed",
                         category |-> "error"]>>
               /\ r.result.target = r.handler.listing
               /\ IF r.handler.kind = "page"
                  THEN r.result.kind = "render" /\ r.result.empty
                  ELSE r.result.kind = "redirect"

\* C11: when get_db_connection has returned None the handler opens no
\* cursor and sends no query and no procedure call; a listing page is
\* rendered with empty lists after the one flash 'Database connection
\* failed', a POST handler flashes the same and redirects to its listing
\* page, and a JSON handler answers the error with status 500.
C11_ConnectionFailed ==
    \A i \in Slots :
        dbreq[i].pc \in {"check", "try", "except", "return", "done"}
            /\ dbreq[i].conn = None => NoConnection(dbreq[i])

\* C11 happens: a POST handler got no connection and has returned, while the
\* call in another thread holds a connection
C11_Witness ==
    \E i, j \in Slots :
        /\ DbDone(i)
        /\ dbreq[i].conn = None
        /\ dbreq[i].handler.kind = "post"
        /\ dbreq[i].result.kind = "redirect"
        /\ dbreq[j].conn_state = "open"

\* what C12 says of the call r of a POST handler
FlashMatchesCall(r) ==
    /\ HasFlash(r, "success") => r.call = "returned"
    /\ r.pc \in {"return", "done"} /\ r.call = "raised" => HasFlash(r, "error")
    /\ ~(HasFlash(r, "success") /\ HasFlash(r, "error"))

\* C12: a POST handler flashes 'success' only if its procedure call has
\* returned without a database error, it has flashed 'error' by its last
\* line if the call raised one, and it never flashes both.
C12_FlashMatchesCall ==
    \A i \in Slots : dbreq[i].handler.kind = "post" => FlashMatchesCall(dbreq[i])

\* C12 happens: the procedure call of a POST handler raised a database
\* error and the handler has returned
C12_Witness ==
    \E i \in Slots :
        /\ DbDone(i)
        /\ dbreq[i].handler.kind = "post"
        /\ dbreq[i].call = "raised"
        /\ dbreq[i].result.kind = "redirect"

\* C13: when a handler returns its response, the connection it has opened
\* is closed and so is its cursor.
C13_ConnectionsClosed ==
    \A i \in Slots :
        DbDone(i) /\ dbreq[i].conn # None =>
            dbreq[i].conn_state = "closed" /\ dbreq[i].cursor # "open"

\* C14: a POST handler that got a connection ends in a redirect to its
\* listing page after exactly one flash, whatever the form holds.
C14_PostRedirects ==
    \A i \in Slots :
        DbDone(i) /\ dbreq[i].handler.kind = "post" /\ dbreq[i].conn # None =>
            /\ dbreq[i].result.kind = "redirect"
            /\ dbreq[i].result.target = dbreq[i].handler.listing
            /\ Len(dbreq[i].flashes) = 1

====
